---- MODULE Spec2Model ----
(***************************************************************************)
(* A model of the graph layout session (QuerySession::get_page) and of the *)
(* unified diff construction (unified_diff_hunks / get_unified_hunks) of   *)
(* src-tauri/src/worker/queries.rs.                                        *)
(*                                                                         *)
(* Option<T> is modelled as a sequence of length 0 (None) or 1 (Some).     *)
(* Columns, rows and slots keep the 0-based values of the code; slot s of  *)
(* the stem vector is element s + 1 of the TLA+ sequence.                  *)
(***************************************************************************)
EXTENDS Integers, Sequences, FiniteSets, TLC

\* ------------------------------------------------------------------ bounds
\* Largest number of commits the revset iterator yields.
MaxCommits == 3
\* Largest number of edges of a history, over all its commits.
MaxEdges == 4
\* Number of distinct non-root commits outside the revset (Missing targets).
MaxExternal == 2
\* Largest page size of a QueryState.
MaxPageSize == 3
\* Largest number of lines of a buffer handed to the diff.
MaxLines == 4
\* Largest UnifiedDiffOptions.context.
MaxContext == 2
\* Largest number of bytes of a base file handed to apply_hunk_to_base.
MaxBytes == 4
\* Largest number of lines of a hunk handed to apply_hunk_to_base.
MaxHunkLines == 2
\* Number of commits of a repository a hunk is moved in, the root commit aside.
MaxMoveCommits == 3

\* ------------------------------------------------------- layout: the inputs
\* Commit ids: the i-th commit the iterator yields has id i (children before
\* parents, so every Direct or Indirect edge of commit i targets some j > i);
\* the store's root commit has id 0; the commits outside the revset that
\* Missing edges target have ids -1, -2, ..., named in the order in which
\* the history first mentions them (the layout only compares ids).
root_id == 0

ExternalIds == {0 - k : k \in 1..MaxExternal}

None == <<>>

Some(x) == <<x>>

Max2(a, b) == IF a > b THEN a ELSE b

\* The edges commit i of an n-commit history can carry when ext commits
\* outside the revset have been named so far.
EdgeChoices(i, n, ext) ==
    {[target |-> t, edge_type |-> ty] : t \in (i + 1)..n, ty \in {"Direct", "Indirect"}}
    \cup {[target |-> t, edge_type |-> "Missing"] :
            t \in {root_id} \cup {x \in ExternalIds : 0 - x <= ext + 1}}

\* The edge vectors of k edges with pairwise distinct targets, none in taken,
\* each with the number of outside commits named once it is read.
RECURSIVE EdgeVectors(_, _, _, _, _)
EdgeVectors(i, n, k, ext, taken) ==
    IF k = 0 THEN {[edges |-> <<>>, ext |-> ext]}
    ELSE UNION {{[edges |-> <<e>> \o r.edges, ext |-> r.ext] :
                    r \in EdgeVectors(i, n, k - 1, Max2(ext, 0 - e.target),
                                      taken \cup {e.target})}
                : e \in {c \in EdgeChoices(i, n, ext) : c.target \notin taken}}

\* The (commit, edges) sequences for commits i..n: every commit has at least
\* one edge (only the root commit, which is outside the revset here, has
\* none), in any order, and the history has at most budget edges.
RECURSIVE HistoriesFrom(_, _, _, _)
HistoriesFrom(i, n, budget, ext) ==
    IF i > n THEN {<<>>}
    ELSE UNION {UNION {{<<v.edges>> \o rest :
                          rest \in HistoriesFrom(i + 1, n, budget - k, v.ext)}
                       : v \in EdgeVectors(i, n, k, ext, {})}
                : k \in 1..(budget - (n - i))}

\* What revset.iter_graph() yields: element i is the edge vector of commit i.
Histories == UNION {HistoriesFrom(1, n, MaxEdges, 0) : n \in 1..MaxCommits}

VARIABLES
    history,      \* the revset's (commit, edges) sequence
    immutable,    \* the immutable-commit set behind is_immutable
    page_size,    \* QueryState.page_size
    next_row,     \* QueryState.next_row
    stems,        \* QueryState.stems : Vec<Option<LogStem>>
    iter,         \* QuerySession.iter: number of items of history consumed or skipped
    pc,           \* "idle" between get_page calls, "loop" inside the while loop
    row,          \* get_page's local row
    max,          \* get_page's local max
    rows,         \* get_page's local rows
    page,         \* Option<LogPage>: the page the last get_page returned
    yielded,      \* ghost: ids of the commits iter.next() has returned, in order
    emitted,      \* ghost: every LogRow pushed so far, over all pages
    evaluated,    \* ghost: the commits is_immutable was called for, in order
    resumed       \* ghost: TRUE once QuerySession::new has run on a saved state

layoutVars == <<history, immutable, page_size, next_row, stems, iter, pc, row, max,
                rows, page, yielded, emitted, evaluated, resumed>>

VARIABLES
    left_content,   \* unified_diff_hunks: the left buffer, as its sequence of lines
    right_content,  \* the right buffer, as its sequence of lines
    context,        \* UnifiedDiffOptions.context
    diff,           \* the hunks Diff::hunks() yields for the two buffers
    hunks,          \* Option<Vec<UnifiedDiffHunk>>: what unified_diff_hunks returned
    unified         \* Option<Vec<ChangeHunk>>: what get_unified_hunks returned

diffVars == <<left_content, right_content, context, diff, hunks, unified>>

VARIABLES
    base_content,   \* apply_hunk_to_base: the bytes of the base file
    self_hunk,      \* self.hunk, the ChangeHunk handed to apply_hunk_to_base
    applied         \* Option of what apply_hunk_to_base returned

applyVars == <<base_content, self_hunk, applied>>

VARIABLES
    repo,           \* the repository at its head operation: [commits, visible]
    immutable_ids,  \* the commits check_immutable reports
    from_id,        \* MoveHunk.from_id, resolved
    to_id,          \* MoveHunk.to_id, resolved
    tx,             \* Option of the transaction of the running mutation
    locals,         \* Option of execute's local variables, once they are computed
    mpc,            \* the line execute stands at; "idle" before and "done" after
    outcome,        \* Option of what execute returned
    steps           \* ghost: the repository operations of execute, in order

moveVars == <<repo, immutable_ids, from_id, to_id, tx, locals, mpc, outcome, steps>>

VARIABLES
    store_remotes,  \* the remote bookmarks of the branch at the store's head operation
    view_remotes,   \* the same as ws.view() holds them, loaded by load_at_head
    self_ref,       \* UntrackBranch.ref
    remote_iter,    \* the remotes remote_bookmarks_matching has yet to yield
    upc,            \* the place execute stands at: "idle", "loop", "done"
    untracked       \* Option of what UntrackBranch::execute returned

untrackVars == <<store_remotes, view_remotes, self_ref, remote_iter, upc, untracked>>

vars == <<layoutVars, diffVars, applyVars, moveVars, untrackVars>>

\* No UntrackBranch is running.
UntrackIdle ==
    /\ store_remotes = <<>>
    /\ view_remotes = <<>>
    /\ self_ref = <<>>
    /\ remote_iter = <<>>
    /\ upc = "idle"
    /\ untracked = <<>>

\* No mutation is running.
MoveIdle ==
    /\ repo = [commits |-> <<>>, visible |-> {}]
    /\ immutable_ids = {}
    /\ from_id = 0
    /\ to_id = 0
    /\ tx = <<>>
    /\ locals = <<>>
    /\ mpc = "idle"
    /\ outcome = <<>>
    /\ steps = <<>>

\* No apply_hunk_to_base call is being looked at.
ApplyIdle ==
    /\ base_content = <<>>
    /\ self_hunk = <<>>
    /\ applied = <<>>

\* ------------------------------------------------------ layout: the helpers
Min(S) == CHOOSE x \in S : \A y \in S : x <= y

LogCoordinates(column, r) == <<column, r>>

\* Vec::truncate / slice assignment on the 0-based stem vector.
SetSlot(v, slot, val) == [v EXCEPT ![slot + 1] = val]

find_stem_for_commit_none(v, id) == None

\* QuerySession::find_stem_for_commit: the first slot whose stem targets id.
find_stem_for_commit(v, id) ==
    LET hits == {s \in 0..(Len(v) - 1) : v[s + 1] # None /\ v[s + 1][1].target = id}
    IN  IF hits = {} THEN None ELSE Some(Min(hits))

\* The first empty slot of the stem vector, if any.
FirstEmptySlot_none(v) == None

FirstEmptySlot(v) ==
    LET holes == {s \in 0..(Len(v) - 1) : v[s + 1] = None}
    IN  IF holes = {} THEN None ELSE Some(Min(holes))

\* stems.iter().rev().take_while(is_none).count() followed by truncate.
RECURSIVE TrimTrailingEmpty(_)
TrimTrailingEmpty(v) ==
    IF Len(v) > 0 /\ v[Len(v)] = None
    THEN TrimTrailingEmpty(SubSeq(v, 1, Len(v) - 1))
    ELSE v

\* (self.is_immutable)(&commit_id)
is_immutable(id) == id \in immutable

\* WorkspaceSession::format_header(commit, known_immutable): the header keeps
\* the commit's id and the immutability it was handed.
format_header(id, known_immutable) == [id |-> id, is_immutable |-> known_immutable]

\* ------------------------------------------- layout: one commit of get_page
\* Lines 168 and 195: self.state.stems.len() - column - 1.
Padding_stems_left(len, column) == column

Padding(len, column) == len - column - 1

\* Lines 160-201: the column of the commit, its padding, and the termination
\* of the stem that targets it (or the choice of the first empty slot).
AssignColumn(v, commit_id, r) ==
    LET found   == find_stem_for_commit(v, commit_id)
        column0 == IF found # None THEN found[1] ELSE Len(v)
        pad0    == IF found # None THEN Padding(Len(v), column0) ELSE 0
    IN  IF column0 < Len(v)
        THEN LET slot == v[column0 + 1]
             IN  [column |-> column0,
                  padding |-> pad0,
                  stem_known_immutable |->
                      IF slot # None THEN slot[1].known_immutable ELSE FALSE,
                  lines |->
                      IF slot # None
                      THEN <<[kind |-> IF slot[1].was_inserted THEN "FromNode" ELSE "ToNode",
                              indirect |-> slot[1].indirect,
                              source |-> slot[1].source,
                              target |-> LogCoordinates(column0, r)]>>
                      ELSE <<>>,
                  stems |-> SetSlot(v, column0, None)]
        ELSE LET hole == FirstEmptySlot(v)
             IN  [column |-> IF hole # None THEN hole[1] ELSE column0,
                  padding |-> IF hole # None THEN Padding(Len(v), hole[1]) ELSE pad0,
                  stem_known_immutable |-> FALSE,
                  lines |-> <<>>,
                  stems |-> v]

\* Lines 203-208: the commit inherits a known-immutable stem, otherwise the
\* predicate is evaluated.
EvaluatesPredicate_always(stem_known_immutable) == TRUE

EvaluatesPredicate(stem_known_immutable) == ~stem_known_immutable

KnownImmutable(stem_known_immutable, commit_id) ==
    IF EvaluatesPredicate(stem_known_immutable) THEN is_immutable(commit_id) ELSE TRUE

\* Lines 231-233: a Missing edge to the store's root commit is dropped.
DropsEdge_never(edge) == FALSE

DropsEdge(edge) == edge.edge_type = "Missing" /\ edge.target = root_id

\* Lines 229-277, one iteration of the 'edges loop. acc carries the stem
\* vector, the row's lines and next_missing.
MergeEdge(acc, edge, column, r, header) ==
    LET skip     == DropsEdge(edge)
        missing1 == IF edge.edge_type = "Missing" THEN Some(edge.target)
                    ELSE acc.next_missing
        indirect == edge.edge_type # "Direct"
        existing == find_stem_for_commit(acc.stems, edge.target)
        hole     == FirstEmptySlot(acc.stems)
        stem(ins) == [source |-> LogCoordinates(column, r),
                      target |-> edge.target,
                      indirect |-> indirect,
                      was_inserted |-> ins,
                      known_immutable |-> header.is_immutable]
    IN  IF skip THEN acc
        ELSE IF existing # None
        THEN [stems |-> acc.stems,
              lines |-> Append(acc.lines,
                               [kind |-> "ToIntersection",
                                indirect |-> indirect,
                                source |-> LogCoordinates(column, r),
                                target |-> LogCoordinates(existing[1], r + 1)]),
              next_missing |-> missing1]
        ELSE IF hole # None
        THEN [stems |-> SetSlot(acc.stems, hole[1], Some(stem(TRUE))),
              lines |-> acc.lines,
              next_missing |-> missing1]
        ELSE [stems |-> Append(acc.stems, Some(stem(FALSE))),
              lines |-> acc.lines,
              next_missing |-> missing1]

RECURSIVE MergeEdges(_, _, _, _, _, _)
MergeEdges(acc, edges, k, column, r, header) ==
    IF k > Len(edges) THEN acc
    ELSE MergeEdges(MergeEdge(acc, edges[k], column, r, header),
                    edges, k + 1, column, r, header)

\* Lines 288-302: terminate the stem created for the pending missing edge.
\* Returns the stem vector, the row's lines and the number of rows consumed.
TerminateMissing(v, lines, next_missing, column, r) ==
    LET slot == IF next_missing = None THEN None
                ELSE find_stem_for_commit(v, next_missing[1])
    IN  IF slot = None
        THEN [stems |-> v, lines |-> lines, extra |-> 0]
        ELSE [stems |-> SetSlot(v, slot[1], None),
              lines |-> Append(lines,
                               [kind |-> "ToMissing",
                                indirect |-> v[slot[1] + 1][1].indirect,
                                source |-> LogCoordinates(column, r),
                                target |-> LogCoordinates(slot[1], r + 1)]),
              extra |-> 1]

\* Lines 157-302: the body of the while loop for one (commit_id, commit_edges),
\* entered with stem vector v and row r.
LayoutCommit(v, commit_id, commit_edges, r) ==
    LET col     == AssignColumn(v, commit_id, r)
        header  == format_header(commit_id,
                                 KnownImmutable(col.stem_known_immutable, commit_id))
        trimmed == TrimTrailingEmpty(col.stems)
        merged  == MergeEdges([stems |-> trimmed, lines |-> col.lines,
                               next_missing |-> None],
                              commit_edges, 1, col.column, r, header)
        term    == TerminateMissing(merged.stems, merged.lines, merged.next_missing,
                                    col.column, r)
    IN  [stems |-> term.stems,
         row |-> r + 1 + term.extra,
         evaluates |-> EvaluatesPredicate(col.stem_known_immutable),
         log_row |-> [revision |-> header,
                      location |-> LogCoordinates(col.column, r),
                      padding |-> col.padding,
                      lines |-> term.lines]]

\* ------------------------------------------------------ layout: the actions
\* Line 280, rows.push(LogRow {..}).
PushRow_replaces_at_boundary(rs, log_row) ==
    IF \E k \in 1..Len(log_row.lines) : log_row.lines[k].kind = "ToMissing"
    THEN IF rs = <<>> THEN rs ELSE [rs EXCEPT ![Len(rs)] = log_row]
    ELSE Append(rs, log_row)

PushRow(rs, log_row) == Append(rs, log_row)

\* Line 305, the page-size check that breaks the loop.
BreakLoop(r, mx) == r = mx

\* Line 314, self.iter.peek().is_some() with the iterator at position it.
HasMore_peeks_second(it) == it + 1 < Len(history)

HasMore(it) == it < Len(history)

\* QuerySession::new, lines 126-128: iter_graph().skip(state.next_row).
SkipRows(n) == IF n < Len(history) THEN n ELSE Len(history)

\* No diff is running.
DiffIdle ==
    /\ left_content = <<>>
    /\ right_content = <<>>
    /\ context = 0
    /\ diff = <<>>
    /\ hunks = None
    /\ unified = None

\* QueryState::new(page_size) and QuerySession::new over a fresh revset.
Init ==
    /\ history \in Histories
    /\ immutable = {}
    /\ page_size \in 1..MaxPageSize
    /\ next_row = 0
    /\ stems = <<>>
    /\ iter = SkipRows(0)
    /\ pc = "idle"
    /\ row = 0
    /\ max = 0
    /\ rows = <<>>
    /\ page = None
    /\ yielded = <<>>
    /\ emitted = <<>>
    /\ evaluated = <<>>
    /\ resumed = FALSE
    /\ DiffIdle
    /\ UntrackIdle
    /\ ApplyIdle
    /\ MoveIdle

\* The immutable sets of a history: with a commit they hold the commits its
\* edges lead to (the immutable commits are the ancestors of the immutable
\* heads).
ImmutableSets(h) ==
    {S \in SUBSET (1..Len(h)) :
        \A c \in S : \A k \in 1..Len(h[c]) :
            h[c][k].target \in 1..Len(h) => h[c][k].target \in S}

\* A fresh QuerySession whose is_immutable predicate holds of some commits;
\* the pages are of the largest size.
InitImmutable ==
    /\ history \in Histories
    /\ immutable \in ImmutableSets(history)
    /\ page_size = MaxPageSize
    /\ next_row = 0
    /\ stems = <<>>
    /\ iter = SkipRows(0)
    /\ pc = "idle"
    /\ row = 0
    /\ max = 0
    /\ rows = <<>>
    /\ page = None
    /\ yielded = <<>>
    /\ emitted = <<>>
    /\ evaluated = <<>>
    /\ resumed = FALSE
    /\ DiffIdle
    /\ UntrackIdle
    /\ ApplyIdle
    /\ MoveIdle

\* get_page, lines 147-153: the locals before the loop.
GetPageEnter ==
    /\ pc = "idle"
    /\ pc' = "loop"
    /\ rows' = <<>>
    /\ row' = next_row
    /\ max' = next_row + page_size
    /\ UNCHANGED <<history, immutable, page_size, next_row, stems, iter, page,
                   yielded, emitted, evaluated, resumed>>
    /\ UNCHANGED <<diffVars, applyVars, moveVars, untrackVars>>

Return_counts_rows(r, rs, it) ==
    /\ pc' = "idle"
    /\ next_row' = next_row + Len(rs)
    /\ page' = Some([rows |-> rs, has_more |-> HasMore(it)])

\* get_page, lines 310-316: store next_row and return the page.
Return(r, rs, it) ==
    /\ pc' = "idle"
    /\ next_row' = r
    /\ page' = Some([rows |-> rs, has_more |-> HasMore(it)])

\* An item of the iterator that is Err(RevsetEvaluationError) instead of
\* Ok((commit_id, commit_edges)): it stands in the history as an edge vector
\* no commit has.
RevsetEvaluationError == <<[target |-> root_id, edge_type |-> "RevsetEvaluationError"]>>

IsErr(item) == item = RevsetEvaluationError

\* get_page, lines 156-308: iter.next() yields a commit; the row is laid out;
\* the loop breaks (and get_page returns) when row == max.
VisitCommit ==
    /\ pc = "loop"
    /\ iter < Len(history)
    /\ ~IsErr(history[iter + 1])
    /\ LET commit_id == iter + 1
           out == LayoutCommit(stems, commit_id, history[commit_id], row)
           rs  == PushRow(rows, out.log_row)
       IN  /\ iter' = iter + 1
           /\ yielded' = Append(yielded, commit_id)
           /\ stems' = out.stems
           /\ row' = out.row
           /\ rows' = rs
           /\ emitted' = emitted \o SubSeq(rs, Len(rows) + 1, Len(rs))
           /\ evaluated' = IF out.evaluates THEN Append(evaluated, commit_id)
                           ELSE evaluated
           /\ IF BreakLoop(out.row, max)
              THEN Return(out.row, rs, iter + 1)
              ELSE UNCHANGED <<pc, next_row, page>>
    /\ UNCHANGED <<history, immutable, page_size, max, resumed>>
    /\ UNCHANGED <<diffVars, applyVars, moveVars, untrackVars>>

\* get_page, line 156 and 310-316: iter.next() is None; get_page returns.
IterExhausted ==
    /\ pc = "loop"
    /\ iter = Len(history)
    /\ Return(row, rows, iter)
    /\ UNCHANGED <<history, immutable, page_size, stems, iter, row, max, rows,
                   yielded, emitted, evaluated, resumed>>
    /\ UNCHANGED <<diffVars, applyVars, moveVars, untrackVars>>

\* The caller drops the QuerySession, keeps its QueryState and builds a new
\* QuerySession from it over the same revset (QuerySession::new, lines 120-140).
Resume ==
    /\ pc = "idle"
    /\ page # None
    /\ iter' = SkipRows(next_row)
    /\ resumed' = TRUE
    /\ UNCHANGED <<history, immutable, page_size, next_row, stems, pc, row, max,
                   rows, page, yielded, emitted, evaluated>>
    /\ UNCHANGED <<diffVars, applyVars, moveVars, untrackVars>>

Next == GetPageEnter \/ VisitCommit \/ IterExhausted

\* One QuerySession over one revset: the iterator lives across get_page calls.
Spec == Init /\ [][Next]_vars

NextResume == GetPageEnter \/ VisitCommit \/ IterExhausted \/ Resume

\* The session is rebuilt from its saved QueryState between pages.
SpecResume == Init /\ [][NextResume]_vars

SpecImmutable == InitImmutable /\ [][Next]_vars

\* get_page, line 156 and 310-316: iter.next() is Some(Err(..)), which the
\* pattern Some(Ok(..)) of the while let does not match: the item is consumed,
\* the loop ends and get_page returns the page.
IterError ==
    /\ pc = "loop"
    /\ iter < Len(history)
    /\ IsErr(history[iter + 1])
    /\ iter' = iter + 1
    /\ Return(row, rows, iter + 1)
    /\ UNCHANGED <<history, immutable, page_size, stems, row, max, rows,
                   yielded, emitted, evaluated, resumed>>
    /\ UNCHANGED <<diffVars, applyVars, moveVars, untrackVars>>

\* A session over a revset whose evaluation fails at one item.
InitFailing ==
    /\ DiffIdle
    /\ UntrackIdle
    /\ ApplyIdle
    /\ MoveIdle
    /\ \E h \in Histories : \E k \in 1..Len(h) :
           history = [h EXCEPT ![k] = RevsetEvaluationError]
    /\ immutable = {}
    /\ page_size \in 1..MaxPageSize
    /\ next_row = 0
    /\ stems = <<>>
    /\ iter = 0
    /\ pc = "idle"
    /\ row = 0
    /\ max = 0
    /\ rows = <<>>
    /\ page = None
    /\ yielded = <<>>
    /\ emitted = <<>>
    /\ evaluated = <<>>
    /\ resumed = FALSE

NextFailing == GetPageEnter \/ VisitCommit \/ IterExhausted \/ IterError

SpecFailing == InitFailing /\ [][NextFailing]_vars

\* --------------------------------------------------------- diff: the inputs
\* A buffer is modelled as its sequence of lines (what split_inclusive on
\* b'\n' yields); a line is one of the values of LineValues, and two lines are
\* the same token exactly when they are the same value (CompareBytesExactly).
LineValues == {"a", "b"}

Buffers == UNION {[1..k -> LineValues] : k \in 0..MaxLines}

Take(sq, n) == SubSeq(sq, 1, IF n < Len(sq) THEN n ELSE Len(sq))

Drop(sq, n) == SubSeq(sq, (IF n < Len(sq) THEN n ELSE Len(sq)) + 1, Len(sq))

\* The hunks of a two-sided diff that begin with a Different hunk. l and r
\* are what is left of the two buffers. A Different hunk has a non-empty side,
\* and when both sides are non-empty they differ in their first and in their
\* last line (the matcher extends unchanged regions over common leading and
\* trailing lines); a Matching hunk is a non-empty run of equal lines; the two
\* kinds alternate.
RECURSIVE DifferentFirst(_, _)
DifferentFirst(l, r) ==
    UNION {
        LET dl   == Take(l, i)
            dr   == Take(r, j)
            l1   == Drop(l, i)
            r1   == Drop(r, j)
            head == [kind |-> "Different", left |-> dl, right |-> dr]
        IN  IF i = 0 /\ j = 0 THEN {}
            ELSE IF i > 0 /\ j > 0 /\ (dl[1] = dr[1] \/ dl[i] = dr[j]) THEN {}
            ELSE IF l1 = <<>> /\ r1 = <<>> THEN {<<head>>}
            ELSE UNION {
                LET m == [kind |-> "Matching", left |-> Take(l1, k), right |-> Take(r1, k)]
                IN  IF Take(l1, k) # Take(r1, k) THEN {}
                    ELSE IF Drop(l1, k) = <<>> /\ Drop(r1, k) = <<>> THEN {<<head, m>>}
                    ELSE {<<head, m>> \o rest : rest \in DifferentFirst(Drop(l1, k), Drop(r1, k))}
                : k \in 1..(IF Len(l1) < Len(r1) THEN Len(l1) ELSE Len(r1))}
        : i \in 0..Len(l), j \in 0..Len(r)}

\* diff_by_line([left, right], Exact).hunks(): the library is modelled by its
\* contract. Equal buffers give one Matching hunk (none when they are empty);
\* otherwise any alternation of Matching and Different hunks whose left sides
\* concatenate to left and whose right sides concatenate to right.
diff_by_line(l, r) ==
    IF l = r
    THEN IF l = <<>> THEN {<<>>} ELSE {<<[kind |-> "Matching", left |-> l, right |-> r]>>}
    ELSE DifferentFirst(l, r)
         \cup UNION {
                IF Take(l, k) # Take(r, k) \/ (Drop(l, k) = <<>> /\ Drop(r, k) = <<>>) THEN {}
                ELSE {<<[kind |-> "Matching", left |-> Take(l, k), right |-> Take(r, k)]>>
                        \o rest : rest \in DifferentFirst(Drop(l, k), Drop(r, k))}
                : k \in 1..(IF Len(l) < Len(r) THEN Len(l) ELSE Len(r))}

\* ------------------------------------------------- diff: unified_diff_hunks
\* A hunk line keeps its DiffLineType, its content and, as the slice does in
\* the code, where it comes from: the index of the diff hunk it is a part of.
TagLines(type, lines, origin) ==
    [k \in 1..Len(lines) |-> [type |-> type, content |-> lines[k], origin |-> origin]]

\* UnifiedDiffHunk::extend_context_lines, lines 732-740.
extend_context_lines(h, lines, origin) ==
    [left_line_range  |-> [start |-> h.left_line_range.start,
                           end |-> h.left_line_range.end + Len(lines)],
     right_line_range |-> [start |-> h.right_line_range.start,
                           end |-> h.right_line_range.end + Len(lines)],
     lines |-> h.lines \o TagLines("Context", lines, origin)]

\* UnifiedDiffHunk::extend_removed_lines, lines 743-748.
extend_removed_lines(h, lines, origin) ==
    [left_line_range  |-> [start |-> h.left_line_range.start,
                           end |-> h.left_line_range.end + Len(lines)],
     right_line_range |-> h.right_line_range,
     lines |-> h.lines \o TagLines("Removed", lines, origin)]

\* UnifiedDiffHunk::extend_added_lines, lines 751-756.
extend_added_lines(h, lines, origin) ==
    [left_line_range  |-> h.left_line_range,
     right_line_range |-> [start |-> h.right_line_range.start,
                           end |-> h.right_line_range.end + Len(lines)],
     lines |-> h.lines \o TagLines("Added", lines, origin)]

\* Lines 774-778 and 810-814: an empty hunk at the given line numbers.
EmptyHunk(left_start, right_start) ==
    [left_line_range  |-> [start |-> left_start, end |-> left_start],
     right_line_range |-> [start |-> right_start, end |-> right_start],
     lines |-> <<>>]

\* Lines 797-801: the context kept in front of the next hunk.
BeforeLines_always(lines, ctx, has_next) ==
    SubSeq(lines, Len(lines) - Len(Take(lines, ctx)) + 1, Len(lines))

BeforeLines(lines, ctx, has_next) ==
    IF has_next
    THEN SubSeq(lines, Len(lines) - Len(Take(lines, ctx)) + 1, Len(lines))
    ELSE <<>>

\* Line 804: skipped lines close the current hunk and open a new one.
StartsNewHunk_always(num_skip_lines) == num_skip_lines >= 0

StartsNewHunk_late(num_skip_lines) == num_skip_lines > 1

StartsNewHunk(num_skip_lines) == num_skip_lines > 0

\* Lines 805-806: the first line of the new hunk.
NewHunkStart_no_skip(range_end, num_skip_lines) == range_end

NewHunkStart(range_end, num_skip_lines) == range_end + num_skip_lines

\* Line 793: the context kept behind the lines of the current hunk.
AfterLines_one_more(lines, ctx) == Take(lines, ctx + 1)

AfterLines(lines, ctx) == Take(lines, ctx)

\* Lines 786-819: the Matching arm. acc carries hunks and current_hunk.
MatchingArm(acc, hunk, origin, ctx, has_next) ==
    LET lines    == hunk.right
        after    == IF acc.current_hunk.lines # <<>> THEN AfterLines(lines, ctx) ELSE <<>>
        cur1     == IF acc.current_hunk.lines # <<>>
                    THEN extend_context_lines(acc.current_hunk, after, origin)
                    ELSE acc.current_hunk
        rest1    == Drop(lines, Len(after))
        before   == BeforeLines(rest1, ctx, has_next)
        num_skip == Len(rest1) - Len(before)
        hunks1   == IF StartsNewHunk(num_skip) /\ cur1.lines # <<>>
                    THEN Append(acc.hunks, cur1) ELSE acc.hunks
        cur2     == IF StartsNewHunk(num_skip)
                    THEN EmptyHunk(NewHunkStart(cur1.left_line_range.end, num_skip),
                                   NewHunkStart(cur1.right_line_range.end, num_skip))
                    ELSE cur1
    IN  [hunks |-> hunks1,
         current_hunk |-> extend_context_lines(cur2, before, origin)]

\* Lines 820-826: the Different arm. unzip_diff_hunks_to_lines gives the lines
\* of the left side and the lines of the right side.
DifferentArm(acc, hunk, origin) ==
    [hunks |-> acc.hunks,
     current_hunk |->
         extend_added_lines(extend_removed_lines(acc.current_hunk, hunk.left, origin),
                            hunk.right, origin)]

RECURSIVE DiffLoop(_, _, _, _)
DiffLoop(acc, hs, k, ctx) ==
    IF k > Len(hs) THEN acc
    ELSE DiffLoop(IF hs[k].kind = "Matching"
                  THEN MatchingArm(acc, hs[k], k, ctx, k < Len(hs))
                  ELSE DifferentArm(acc, hs[k], k),
                  hs, k + 1, ctx)

\* unified_diff_hunks, lines 768-834, on the hunks hs of the line diff.
unified_diff_hunks(hs, ctx) ==
    LET out == DiffLoop([hunks |-> <<>>, current_hunk |-> EmptyHunk(1, 1)], hs, 1, ctx)
    IN  IF out.current_hunk.lines # <<>>
        THEN Append(out.hunks, out.current_hunk)
        ELSE out.hunks

\* Lines 652-662: the marker written in front of a line.
Marker(type) ==
    CASE type = "Context" -> " "
      [] type = "Removed" -> "-"
      [] type = "Added"   -> "+"

\* Lines 638 and 642: Range::len of a half-open line range.
RangeLen_inclusive(range) == range.end - range.start + 1

RangeLen(range) == range.end - range.start

\* get_unified_hunks, lines 635-678: one ChangeHunk. A formatted line is the
\* marker followed by the line's content, kept as the pair of the two.
ChangeHunk(h) ==
    [location |->
        [from_file |-> [start |-> h.left_line_range.start,
                        len |-> RangeLen(h.left_line_range)],
         to_file   |-> [start |-> h.right_line_range.start,
                        len |-> RangeLen(h.right_line_range)]],
     lines |-> [k \in 1..Len(h.lines) |-> <<Marker(h.lines[k].type), h.lines[k].content>>]]

\* get_unified_hunks, lines 617-682.
get_unified_hunks(hs, ctx) ==
    LET uh == unified_diff_hunks(hs, ctx)
    IN  [k \in 1..Len(uh) |-> ChangeHunk(uh[k])]

\* --------------------------------------------------------- diff: the actions
\* No layout session is running.
LayoutIdle ==
    /\ history = <<>>
    /\ immutable = {}
    /\ page_size = 1
    /\ next_row = 0
    /\ stems = <<>>
    /\ iter = 0
    /\ pc = "idle"
    /\ row = 0
    /\ max = 0
    /\ rows = <<>>
    /\ page = None
    /\ yielded = <<>>
    /\ emitted = <<>>
    /\ evaluated = <<>>
    /\ resumed = FALSE

\* The arguments of a get_unified_hunks call and the line diff of the buffers.
InitDiff ==
    /\ LayoutIdle
    /\ UntrackIdle
    /\ ApplyIdle
    /\ MoveIdle
    /\ left_content \in Buffers
    /\ right_content \in Buffers
    /\ context \in 0..MaxContext
    /\ diff \in diff_by_line(left_content, right_content)
    /\ hunks = None
    /\ unified = None

\* get_unified_hunks(context, left_content, right_content) runs and returns.
GetUnifiedHunks ==
    /\ unified = None
    /\ hunks' = Some(unified_diff_hunks(diff, context))
    /\ unified' = Some(get_unified_hunks(diff, context))
    /\ UNCHANGED <<left_content, right_content, context, diff>>
    /\ UNCHANGED <<layoutVars, applyVars, moveVars, untrackVars>>

NextDiff == GetUnifiedHunks

SpecDiff == InitDiff /\ [][NextDiff]_vars

\* The length of the longer buffers.
MaxLongLines == 5

\* Longer buffers: lines of the left buffer are replaced in the right one.
InitDiffLong ==
    /\ LayoutIdle
    /\ UntrackIdle
    /\ ApplyIdle
    /\ MoveIdle
    /\ left_content = [k \in 1..MaxLongLines |-> "a"]
    /\ right_content \in [1..MaxLongLines -> LineValues]
    /\ context \in 0..MaxContext
    /\ diff \in diff_by_line(left_content, right_content)
    /\ hunks = None
    /\ unified = None

\* get_unified_hunks on the buffers of SpecDiff and on the longer ones.
SpecDiffLong == (InitDiff \/ InitDiffLong) /\ [][NextDiff]_vars

\* ------------------------------------------------ hunks: apply_hunk_to_base
\* A file is the sequence of its bytes, a byte a string of one character; a
\* line of a ChangeHunk is the sequence of its characters, marker first.
Ok(x) == [tag |-> "Ok", value |-> x]

Err(message) == [tag |-> "Err", message |-> message]

\* A slice index out of range ends the call abnormally.
Panic == [tag |-> "Panic"]

\* The characters char::is_whitespace holds of, among those of the model.
Whitespace == {" ", "\n"}

\* str::trim_end.
RECURSIVE trim_end(_)
trim_end(s) ==
    IF s # <<>> /\ s[Len(s)] \in Whitespace
    THEN trim_end(SubSeq(s, 1, Len(s) - 1))
    ELSE s

\* str::trim_end_matches('\n').
RECURSIVE trim_end_matches_newline(_)
trim_end_matches_newline(s) ==
    IF s # <<>> /\ s[Len(s)] = "\n"
    THEN trim_end_matches_newline(SubSeq(s, 1, Len(s) - 1))
    ELSE s

\* str::lines: the text between line feeds, without them; what follows the
\* last line feed is a line only when it is not empty. (The model has no
\* carriage return.)
RECURSIVE str_lines(_)
str_lines(s) ==
    IF s = <<>> THEN <<>>
    ELSE LET feeds == {k \in 1..Len(s) : s[k] = "\n"}
         IN  IF feeds = {} THEN <<s>>
             ELSE LET k == CHOOSE f \in feeds : \A g \in feeds : f <= g
                  IN  <<SubSeq(s, 1, k - 1)>> \o str_lines(SubSeq(s, k + 1, Len(s)))

\* Line 1225: from_file.start.saturating_sub(1).
saturating_sub(n, m) == IF n > m THEN n - m ELSE 0

\* Line 1235: the test a context or removed line has to pass.
LineMatches(base_line, expected) == trim_end(base_line) = trim_end(expected)

\* Lines 1231-1257: the loop over the lines of the hunk, from line k on.
RECURSIVE ApplyLoop(_, _, _, _, _)
ApplyLoop(base_lines, hunk_lines, k, base_idx, result_lines) ==
    IF k > Len(hunk_lines)
    THEN Ok([base_idx |-> base_idx, result_lines |-> result_lines])
    ELSE LET diff_line == hunk_lines[k]
             marker    == IF diff_line = <<>> THEN "" ELSE diff_line[1]
         IN  IF marker \in {" ", "-"}
             THEN IF /\ base_idx < Len(base_lines)
                     /\ LineMatches(base_lines[base_idx + 1], Tail(diff_line))
                  THEN ApplyLoop(base_lines, hunk_lines, k + 1, base_idx + 1,
                                 IF marker = " "
                                 THEN Append(result_lines, base_lines[base_idx + 1])
                                 ELSE result_lines)
                  ELSE Err("Hunk mismatch")
             ELSE IF marker = "+"
                  THEN ApplyLoop(base_lines, hunk_lines, k + 1, base_idx,
                                 Append(result_lines,
                                        trim_end_matches_newline(Tail(diff_line))))
                  ELSE Err("Malformed diff line")

\* Lines 1262-1269: the lines with a line feed between them.
RECURSIVE JoinLines(_)
JoinLines(ls) ==
    IF ls = <<>> THEN <<>>
    ELSE IF Len(ls) = 1 THEN ls[1]
    ELSE ls[1] \o <<"\n">> \o JoinLines(Tail(ls))

\* apply_hunk_to_base, lines 1216-1276.
apply_hunk_to_base(content, h) ==
    LET base_lines == str_lines(content)
        ends_with_newline == content # <<>> /\ content[Len(content)] = "\n"
        hunk_start == saturating_sub(h.location.from_file.start, 1)
    IN  IF hunk_start > Len(base_lines) THEN Panic
        ELSE LET out == ApplyLoop(base_lines, h.lines.lines, 1, hunk_start,
                                  SubSeq(base_lines, 1, hunk_start))
             IN  IF out.tag # "Ok" THEN out
                 ELSE LET result_lines == out.value.result_lines \o
                              SubSeq(base_lines, out.value.base_idx + 1, Len(base_lines))
                          result_bytes == JoinLines(result_lines)
                      IN  Ok(IF /\ ends_with_newline
                                /\ result_bytes # <<>>
                                /\ result_bytes[Len(result_bytes)] # "\n"
                             THEN Append(result_bytes, "\n")
                             ELSE result_bytes)

\* ----------------------------------------- hunks: apply_hunk_to_base, inputs
\* The bytes of the base files.
ApplyChars == {"a", " ", "\n"}

RECURSIVE ByteStrings(_)
ByteStrings(n) ==
    IF n = 0 THEN {<<>>}
    ELSE LET shorter == ByteStrings(n - 1)
         IN  shorter \cup {Append(b, c) : b \in {x \in shorter : Len(x) = n - 1},
                                          c \in ApplyChars}

\* The lines of the hunks: a marker, a content and the line feed the diff
\* leaves at the end of a line; one line carries no marker.
HunkLineSet ==
    {<<m>> \o c \o <<"\n">> : m \in {" ", "-", "+"}, c \in {<<"a">>, <<"a", " ">>}}
        \cup {<<"a", "\n">>}

RECURSIVE HunkLineSeqs(_)
HunkLineSeqs(n) ==
    IF n = 0 THEN {<<>>}
    ELSE LET shorter == HunkLineSeqs(n - 1)
         IN  shorter \cup {Append(ls, l) : ls \in {x \in shorter : Len(x) = n - 1},
                                           l \in HunkLineSet}

\* A ChangeHunk: messages::ChangeHunk { location, lines: MultilineString }.
\* apply_hunk_to_base reads from_file.start and the lines only.
MakeHunk(start, ls) ==
    [location |-> [from_file |-> [start |-> start, len |-> 0],
                   to_file   |-> [start |-> start, len |-> 0]],
     lines |-> [lines |-> ls]]

\* A base file and a hunk that starts in the file, at its end or behind it.
InitApply ==
    /\ LayoutIdle
    /\ UntrackIdle
    /\ DiffIdle
    /\ MoveIdle
    /\ base_content \in ByteStrings(MaxBytes)
    /\ \E ls \in HunkLineSeqs(MaxHunkLines), start \in 0..(Len(str_lines(base_content)) + 2) :
          self_hunk = Some(MakeHunk(start, ls))
    /\ applied = None

\* apply_hunk_to_base(&base_content, &self.hunk) runs and returns.
ApplyHunk ==
    /\ applied = None
    /\ applied' = Some(apply_hunk_to_base(base_content, self_hunk[1]))
    /\ UNCHANGED <<base_content, self_hunk>>
    /\ UNCHANGED <<layoutVars, diffVars, moveVars, untrackVars>>

NextApply == ApplyHunk

SpecApply == InitApply /\ [][NextApply]_vars

\* ----------------------------------------------- hunks: trees and their merge
\* The trees of jj_lib hold one path here, the path of the mutation. What a
\* tree holds at the path is a Merge of Option<TreeValue>: the values added
\* and the values removed, one more added than removed; a resolved tree has
\* one added value, None (no file) or Some(bytes of the file).
Resolved(value) == [adds |-> <<value>>, removes |-> <<>>]

is_resolved(tree) == tree.removes = <<>>

RemoveAt(seq, i) == SubSeq(seq, 1, i - 1) \o SubSeq(seq, i + 1, Len(seq))

SeqRange(seq) == {seq[i] : i \in 1..Len(seq)}

RECURSIVE Concat(_)
Concat(seqs) == IF seqs = <<>> THEN <<>> ELSE seqs[1] \o Concat(Tail(seqs))

\* Merge::simplify: an added and a removed value that are equal cancel.
RECURSIVE simplify(_)
simplify(m) ==
    LET pairs == {<<i, j>> \in (1..Len(m.adds)) \X (1..Len(m.removes)) :
                     m.adds[i] = m.removes[j]}
    IN  IF pairs = {} THEN m
        ELSE LET pr == CHOOSE x \in pairs :
                           \A y \in pairs : x[1] < y[1] \/ (x[1] = y[1] /\ x[2] <= y[2])
             IN  simplify([adds |-> RemoveAt(m.adds, pr[1]),
                           removes |-> RemoveAt(m.removes, pr[2])])

\* trivial_merge with SameChange::Accept, on a simplified merge: one value
\* is left, or every side made the same change.
trivial_merge(m) ==
    IF Cardinality(SeqRange(m.adds)) = 1 /\ Cardinality(SeqRange(m.removes)) <= 1
    THEN Some(m.adds[1])
    ELSE None

\* <[u8]>::split_inclusive on the line feed: the lines with their line feeds.
RECURSIVE split_inclusive(_)
split_inclusive(s) ==
    IF s = <<>> THEN <<>>
    ELSE LET feeds == {k \in 1..Len(s) : s[k] = "\n"}
         IN  IF feeds = {} THEN <<s>>
             ELSE LET k == CHOOSE f \in feeds : \A g \in feeds : f <= g
                  IN  <<SubSeq(s, 1, k)>> \o split_inclusive(SubSeq(s, k + 1, Len(s)))

\* The lines all the sides of a merge of files share: the unchanged regions
\* of the line diff of the sides. The line diff matches the lines that are
\* unique in the sides it compares; sides in which a line repeats, or which
\* hold the shared lines in different orders, are taken to share nothing.
UnchangedLines(sides) ==
    LET inAll(l) == \A k \in 1..Len(sides) : l \in SeqRange(sides[k])
        shared   == SelectSeq(sides[1], inAll)
        isShared(l) == l \in SeqRange(shared)
    IN  IF \A k \in 1..Len(sides) :
              /\ Cardinality(SeqRange(sides[k])) = Len(sides[k])
              /\ SelectSeq(sides[k], isShared) = shared
        THEN shared
        ELSE <<>>

\* The lines of a side between the k-th and the k+1-th unchanged line.
Segment(side, unchanged, k) ==
    LET pos(n) == IF n = 0 THEN 0
                  ELSE IF n > Len(unchanged) THEN Len(side) + 1
                  ELSE CHOOSE i \in 1..Len(side) : side[i] = unchanged[n]
    IN  SubSeq(side, pos(k) + 1, pos(k + 1) - 1)

\* files::merge on the lines of the sides: every changed region is merged by
\* trivial_merge; None when a region stays in conflict.
merge_hunks(m) ==
    LET Merged(adds, removes, unchanged) ==
            LET region(k) == trivial_merge(simplify(
                    [adds |-> [i \in 1..Len(adds) |-> Segment(adds[i], unchanged, k)],
                     removes |-> [i \in 1..Len(removes) |->
                                     Segment(removes[i], unchanged, k)]]))
                Joined(regions, n) ==
                    IF \E k \in 0..n : regions[k] = None THEN None
                    ELSE Some(Concat(Concat(
                             [k \in 1..(2 * n + 1) |->
                                 IF k % 2 = 1 THEN regions[(k - 1) \div 2][1]
                                 ELSE <<unchanged[k \div 2]>>])))
            IN  Joined([k \in 0..Len(unchanged) |-> region(k)], Len(unchanged))
        Sides(adds, removes) == Merged(adds, removes, UnchangedLines(removes \o adds))
    IN  Sides([i \in 1..Len(m.adds) |-> split_inclusive(m.adds[i][1])],
              [i \in 1..Len(m.removes) |-> split_inclusive(m.removes[i][1])])

\* MergedTree::merge(self, base, other): the sides are flattened into one
\* merge and simplified; the value at the path is resolved when the merge is
\* trivial or when all sides are files whose lines merge.
MergeTrees(self, base, other) ==
    LET LinesMerged(m, merged) == IF merged # None THEN Resolved(merged) ELSE m
        Resolve(m, trivial) ==
            IF trivial # None THEN Resolved(trivial[1])
            ELSE IF \A v \in SeqRange(m.adds) \cup SeqRange(m.removes) : v # None
            THEN LinesMerged(m, merge_hunks(m))
            ELSE m
        Simplified(m) == Resolve(m, trivial_merge(m))
    IN  Simplified(simplify([adds |-> self.adds \o base.removes \o other.adds,
                             removes |-> self.removes \o base.adds \o other.removes]))

\* ------------------------------------------ hunks: commits and transactions
\* A repository is its commits, a function from the ids 0..n-1 to records
\* [parents, tree, description], and the set of its visible commits; commit
\* 0 is the root commit. A transaction holds the same and parent_mapping, the
\* record of the commits rewritten and abandoned in it.
RECURSIVE Ancestors(_, _)
Ancestors(commits, id) ==
    {id} \cup UNION {Ancestors(commits, commits[id].parents[k])
                        : k \in 1..Len(commits[id].parents)}

\* Index::is_ancestor: a commit is an ancestor of itself.
is_ancestor(commits, ancestor_id, descendant_id) ==
    ancestor_id \in Ancestors(commits, descendant_id)

\* The heads of a set of commits: those that are no ancestor of another one.
HeadsOf(commits, ids) ==
    {c \in ids : \A d \in ids \ {c} : c \notin Ancestors(commits, d)}

SetToSeq(set) ==
    LET RECURSIVE Sorted(_)
        Sorted(rest) ==
            IF rest = {} THEN <<>>
            ELSE LET least == CHOOSE x \in rest : \A y \in rest : x <= y
                 IN  <<least>> \o Sorted(rest \ {least})
    IN  Sorted(set)

\* merge_commit_trees: the tree a commit's changes are made on. No parent
\* gives the empty tree, one parent its tree, more parents the merge of
\* their trees over the tree of their common ancestors.
RECURSIVE merge_commit_trees(_, _)
merge_commit_trees(commits, ids) ==
    LET RECURSIVE Fold(_, _)
        Fold(tree, k) ==
            IF k > Len(ids) THEN tree
            ELSE LET before == UNION {Ancestors(commits, ids[j]) : j \in 1..(k - 1)}
                     common == HeadsOf(commits, before \cap Ancestors(commits, ids[k]))
                 IN  Fold(MergeTrees(tree,
                                     merge_commit_trees(commits, SetToSeq(common)),
                                     commits[ids[k]].tree),
                          k + 1)
    IN  IF ids = <<>> THEN Resolved(None)
        ELSE Fold(commits[ids[1]].tree, 2)

\* Repo::start_transaction.
start_transaction(r) ==
    [commits |-> r.commits, visible |-> r.visible, parent_mapping |-> <<>>]

Mapped(t) == DOMAIN t.parent_mapping

SetMapping(parent_mapping, id, rewrite) ==
    [k \in DOMAIN parent_mapping \cup {id} |->
        IF k = id THEN rewrite ELSE parent_mapping[k]]

\* The id of the next commit written to the store.
NewId(t) == Cardinality(DOMAIN t.commits)

\* MutableRepo::write_commit: the commit is stored and becomes visible.
write_commit(t, commit) ==
    [commits |-> [k \in DOMAIN t.commits \cup {NewId(t)} |->
                     IF k = NewId(t) THEN commit ELSE t.commits[k]],
     visible |-> t.visible \cup {NewId(t)},
     parent_mapping |-> t.parent_mapping]

\* rewrite_commit(&old).set_tree(tree).set_description(description).write():
\* a new commit with the parents of the old one, recorded as its successor.
rewrite_commit(t, old_id, tree, description) ==
    LET written == write_commit(t, [parents |-> t.commits[old_id].parents,
                                    tree |-> tree,
                                    description |-> description])
    IN  [written EXCEPT !.parent_mapping =
            SetMapping(t.parent_mapping, old_id,
                       [kind |-> "Rewritten", ids |-> <<NewId(t)>>])]

\* MutableRepo::record_abandoned_commit: the commit's parents take its place.
record_abandoned_commit(t, old_id) ==
    [t EXCEPT !.parent_mapping =
        SetMapping(t.parent_mapping, old_id,
                   [kind |-> "Abandoned", ids |-> t.commits[old_id].parents])]

RECURSIVE Dedup(_)
Dedup(seq) ==
    IF seq = <<>> THEN <<>>
    ELSE LET front == Dedup(SubSeq(seq, 1, Len(seq) - 1))
         IN  IF seq[Len(seq)] \in SeqRange(front) THEN front
             ELSE Append(front, seq[Len(seq)])

\* MutableRepo::new_parents: the parents, each followed through the
\* rewrites and abandonments recorded for it.
RECURSIVE new_parents(_, _)
new_parents(parent_mapping, ids) ==
    Dedup(Concat([k \in 1..Len(ids) |->
        IF ids[k] \in DOMAIN parent_mapping
        THEN new_parents(parent_mapping, parent_mapping[ids[k]].ids)
        ELSE <<ids[k]>>]))

find_descendants_for_rebase_none(t) == {}

\* The visible descendants of the recorded commits that have no record.
find_descendants_for_rebase(t) ==
    {c \in t.visible \ Mapped(t) : Ancestors(t.commits, c) \cap Mapped(t) # {}}

\* rebase_commit with RebaseOptions::default(): the commit's changes on its
\* new parents; an emptied commit is kept.
rebase_commit(t, old_id, parents) ==
    LET old_commit == t.commits[old_id]
        Rebased(old_base_tree, new_base_tree) ==
            IF old_base_tree = new_base_tree THEN old_commit.tree
            ELSE MergeTrees(new_base_tree, old_base_tree, old_commit.tree)
        written == write_commit(t,
            [parents |-> parents,
             tree |-> Rebased(merge_commit_trees(t.commits, old_commit.parents),
                              merge_commit_trees(t.commits, parents)),
             description |-> old_commit.description])
    IN  [written EXCEPT !.parent_mapping =
            SetMapping(t.parent_mapping, old_id,
                       [kind |-> "Rewritten", ids |-> <<NewId(t)>>])]

\* transform_descendants: the commits to rebase are visited parents first,
\* a commit after the new parents of its parents; a commit whose parents
\* did not change is left alone. rebase_map is what the callback of
\* rebase_descendants_with_options is told: old id to new id.
RECURSIVE RebaseLoop(_, _, _)
RebaseLoop(t, to_visit, rebase_map) ==
    IF to_visit = {} THEN [tx |-> t, rebase_map |-> rebase_map]
    ELSE LET needs(c) ==
                 UNION {Ancestors(t.commits, p) :
                          p \in SeqRange(t.commits[c].parents)
                                \cup SeqRange(new_parents(t.parent_mapping,
                                                           t.commits[c].parents))}
             Least(ready) == CHOOSE c \in ready : \A d \in ready : c <= d
             Onto(old_id, parents) ==
                 IF parents = t.commits[old_id].parents
                 THEN RebaseLoop(t, to_visit \ {old_id}, rebase_map)
                 ELSE RebaseLoop(rebase_commit(t, old_id, parents),
                                 to_visit \ {old_id},
                                 SetMapping(rebase_map, old_id, NewId(t)))
             Visit(old_id) ==
                 Onto(old_id, new_parents(t.parent_mapping, t.commits[old_id].parents))
         IN  Visit(Least({c \in to_visit : needs(c) \cap to_visit = {}}))

\* MutableRepo::rebase_descendants_with_options: after the rebase the
\* recorded commits are no longer visible.
rebase_descendants_with_options(t) ==
    LET Hidden(out) ==
            [tx |-> [out.tx EXCEPT !.visible = out.tx.visible \ Mapped(out.tx)],
             rebase_map |-> out.rebase_map]
    IN  Hidden(RebaseLoop(t, find_descendants_for_rebase(t), <<>>))

\* MutableRepo::rebase_descendants.
rebase_descendants(t) == rebase_descendants_with_options(t).tx

\* --------------------------------------------------- MoveHunk: the inputs
\* The parents of commit i: one earlier commit; the last commit may also be
\* a merge of two earlier commits other than the root commit.
ParentChoices(i) ==
    {<<p>> : p \in 0..(i - 1)}
        \cup (IF i = MaxMoveCommits
              THEN {<<p, q>> : p \in 1..(i - 1), q \in 1..(i - 1)} \ {<<p, p>> : p \in 1..(i - 1)}
              ELSE {})

\* A file of three lines, each with its line feed.
FileOf(l1, l2, l3) == <<l1, "\n", l2, "\n", l3, "\n">>

\* The contents of the file at the path of the mutation.
MoveFiles == {FileOf("a", "m", "b"), FileOf("x", "m", "y"), FileOf("z", "m", "y")}

\* Commit 2 has no description, every other commit but the root has its own.
DescriptionOf(i) ==
    CASE i = 1 -> "one"
      [] i = 3 -> "three"
      [] i > 3 -> "more"
      [] OTHER -> ""

\* The repositories: the root commit has no parent and an empty tree.
Repositories ==
    {[commits |-> [i \in 0..MaxMoveCommits |->
                      IF i = 0
                      THEN [parents |-> <<>>, tree |-> Resolved(None), description |-> ""]
                      ELSE [parents |-> parents[i],
                            tree |-> Resolved(Some(files[i])),
                            description |-> DescriptionOf(i)]],
      visible |-> 0..MaxMoveCommits]
        : parents \in {f \in [1..MaxMoveCommits -> UNION {ParentChoices(i) : i \in 1..MaxMoveCommits}] :
                          \A i \in 1..MaxMoveCommits : f[i] \in ParentChoices(i)},
          files \in [1..MaxMoveCommits -> MoveFiles]}

HunkLine(marker, text) == <<marker, text, "\n">>

\* The hunks a client may send: the change of the first line, that of the
\* last line, both in one hunk with the line between them as context, and
\* the change of the first line the other way round.
MoveHunks ==
    {MakeHunk(1, <<HunkLine("-", "a"), HunkLine("+", "x")>>),
     MakeHunk(3, <<HunkLine("-", "b"), HunkLine("+", "y")>>),
     MakeHunk(1, <<HunkLine("-", "a"), HunkLine("+", "x"), HunkLine(" ", "m"),
                   HunkLine("-", "b"), HunkLine("+", "y")>>),
     MakeHunk(1, <<HunkLine("-", "x"), HunkLine("+", "a")>>)}

\* A MoveHunk mutation is about to run on a repository.
InitMove ==
    /\ LayoutIdle
    /\ UntrackIdle
    /\ DiffIdle
    /\ repo \in Repositories
    /\ immutable_ids \in {{0}, {0, 1}}
    /\ from_id \in 1..MaxMoveCommits
    /\ to_id \in 1..MaxMoveCommits
    /\ \E h \in MoveHunks : self_hunk = Some(h)
    /\ base_content = <<>>
    /\ applied = None
    /\ tx = None
    /\ locals = None
    /\ mpc = "execute"
    /\ outcome = None
    /\ steps = <<>>

\* ---------------------------------------------------- MoveHunk: the steps
Updated == [type |-> "Updated"]

Unchanged == [type |-> "Unchanged"]

PreconditionError(message) == [type |-> "PreconditionError", message |-> message]

\* WorkspaceSession::check_immutable: some of the commits is immutable.
check_immutable(ids) == ids \cap immutable_ids # {}

\* read_file_content, lines 1169-1207: the bytes of the file; nothing for
\* no file; the sides one after the other for a conflict.
read_file_content(tree) ==
    IF is_resolved(tree)
    THEN IF tree.adds[1] = None THEN <<>> ELSE tree.adds[1][1]
    ELSE Concat([k \in 1..Len(tree.adds) |->
                    IF tree.adds[k] = None THEN <<>> ELSE tree.adds[k][1]])

\* update_tree_entry, lines 1278-1296: the tree with the file at the path.
update_tree_entry(original_tree, new_blob) == Resolved(Some(new_blob))

\* combine_messages, lines 1155-1167.
combine_messages_source_first(source, destination, abandon_source) ==
    IF abandon_source
    THEN IF source.description = "" THEN destination.description
         ELSE IF destination.description = "" THEN source.description
         ELSE source.description \o "\n" \o destination.description
    ELSE destination.description

combine_messages(source, destination, abandon_source) ==
    IF abandon_source
    THEN IF source.description = "" THEN destination.description
         ELSE IF destination.description = "" THEN source.description
         ELSE destination.description \o "\n" \o source.description
    ELSE destination.description

\* Line 796: the source is abandoned when nothing of it is left.
AbandonSource_never(remainder_tree, base_tree) == FALSE

AbandonSource(remainder_tree, base_tree) == remainder_tree = base_tree

\* Lines 753-802: the trees, the description and the ancestry of a move of
\* hunk h from commit from to commit to, sibling_content being the file
\* apply_hunk_to_base has returned.
Prepare(commits, from, to, sibling_content) ==
    LET base_tree      == commits[commits[from].parents[1]].tree
        sibling_tree   == update_tree_entry(base_tree, sibling_content)
        remainder_tree == MergeTrees(commits[from].tree, sibling_tree, base_tree)
        abandon_source == AbandonSource(remainder_tree, base_tree)
    IN  [from |-> from,
         to |-> to,
         base_tree |-> base_tree,
         sibling_tree |-> sibling_tree,
         remainder_tree |-> remainder_tree,
         new_to_tree |-> MergeTrees(commits[to].tree, base_tree, sibling_tree),
         abandon_source |-> abandon_source,
         description |-> combine_messages(commits[from], commits[to], abandon_source),
         from_is_ancestor |-> is_ancestor(commits, from, to),
         to_is_ancestor |-> is_ancestor(commits, to, from)]

\* Line 757: the source has to have one parent.
IsMergeSource_never(from_parents) == FALSE

IsMergeSource(from_parents) == Len(from_parents) # 1

\* Line 804: the destination is rewritten first when it is an ancestor of
\* the source.
AfterCheck_source_first(l) == "L825"

AfterCheck(l) == IF l.to_is_ancestor THEN "L806" ELSE "L825"

\* Line 834: the rebase that records its map is for a destination that
\* descends from the source.
AfterSource_records_always(l) == "L836"

AfterSource(l) == IF l.from_is_ancestor THEN "L836" ELSE "L864"

Leave_keeps_transaction(result) ==
    /\ outcome' = Some(result)
    /\ tx' = Some(start_transaction(repo))
    /\ mpc' = "done"

\* execute returns: the transaction, if one was started, is dropped.
Leave(result) ==
    /\ outcome' = Some(result)
    /\ tx' = None
    /\ mpc' = "done"

\* Lines 739-804: the preconditions, the sibling content, the trees.
MoveCheck ==
    /\ mpc = "execute"
    /\ UNCHANGED <<repo, immutable_ids, from_id, to_id, self_hunk, steps>>
    /\ UNCHANGED <<layoutVars, diffVars, untrackVars>>
    /\ IF check_immutable({from_id, to_id})
       THEN /\ Leave(Ok(PreconditionError("Revisions are immutable")))
            /\ UNCHANGED <<base_content, applied, locals>>
       ELSE IF IsMergeSource(repo.commits[from_id].parents)
       THEN /\ Leave(Ok(PreconditionError("Cannot move hunk from a merge commit")))
            /\ UNCHANGED <<base_content, applied, locals>>
       ELSE LET content == read_file_content(
                               repo.commits[repo.commits[from_id].parents[1]].tree)
                sibling == apply_hunk_to_base(content, self_hunk[1])
            IN  /\ base_content' = content
                /\ applied' = Some(sibling)
                /\ IF sibling.tag # "Ok"
                   THEN Leave(sibling) /\ UNCHANGED locals
                   ELSE /\ locals' = Some(Prepare(repo.commits, from_id, to_id,
                                                  sibling.value))
                        /\ tx' = Some(start_transaction(repo))
                        /\ mpc' = AfterCheck(locals'[1])
                        /\ UNCHANGED outcome

\* The ghost record of a repository operation.
Step(entry) ==
    /\ steps' = Append(steps, entry)
    /\ UNCHANGED <<repo, immutable_ids, from_id, to_id, outcome>>
    /\ UNCHANGED <<layoutVars, diffVars, applyVars, untrackVars>>

\* Lines 806-810 and 864-868: the destination is rewritten.
RewriteDestination ==
    /\ mpc \in {"L806", "L864"}
    /\ tx' = Some(rewrite_commit(tx[1], locals[1].to, locals[1].new_to_tree,
                                 locals[1].description))
    /\ mpc' = IF mpc = "L806" THEN "L812" ELSE "L871"
    /\ UNCHANGED locals
    /\ Step([op |-> "rewrite_destination",
             old |-> locals[1].to,
             new |-> NewId(tx[1]),
             tree |-> locals[1].new_to_tree,
             description |-> locals[1].description])

\* Lines 812-819 and 825-832: the source is abandoned or rewritten.
ModifySource ==
    /\ mpc \in {"L812", "L825"}
    /\ tx' = Some(IF locals[1].abandon_source
                  THEN record_abandoned_commit(tx[1], locals[1].from)
                  ELSE rewrite_commit(tx[1], locals[1].from, locals[1].remainder_tree,
                                      tx[1].commits[locals[1].from].description))
    /\ mpc' = IF mpc = "L812" THEN "L822" ELSE AfterSource(locals[1])
    /\ UNCHANGED locals
    /\ Step(IF locals[1].abandon_source
            THEN [op |-> "abandon_source", old |-> locals[1].from]
            ELSE [op |-> "rewrite_source",
                  old |-> locals[1].from,
                  new |-> NewId(tx[1]),
                  tree |-> locals[1].remainder_tree])

\* Lines 852-860: the tree the destination is given after the first rebase.
RecomputedTree_stale(t, rebased_to_id, l) == l.new_to_tree

RecomputedTree_rebased(t, rebased_to_id, l) == t.commits[rebased_to_id].tree

RecomputedTree(t, rebased_to_id, l) ==
    MergeTrees(t.commits[rebased_to_id].tree, l.base_tree, l.sibling_tree)

\* Lines 836-861: the descendants are rebased, the destination among them.
RebaseRecording ==
    /\ mpc = "L836"
    /\ LET Recorded(out) ==
               IF locals[1].to \notin DOMAIN out.rebase_map
               THEN /\ Leave(Err("descendant to_commit not found in rebase map"))
                    /\ UNCHANGED locals
                    /\ steps' = Append(steps, [op |-> "rebase_descendants_with_options",
                                               map |-> out.rebase_map])
                    /\ UNCHANGED <<repo, immutable_ids, from_id, to_id>>
                    /\ UNCHANGED <<layoutVars, diffVars, applyVars, untrackVars>>
               ELSE /\ tx' = Some(out.tx)
                    /\ locals' = Some([locals[1] EXCEPT
                           !.to = out.rebase_map[locals[1].to],
                           !.new_to_tree = RecomputedTree(out.tx,
                                               out.rebase_map[locals[1].to], locals[1])])
                    /\ mpc' = "L864"
                    /\ Step([op |-> "rebase_descendants_with_options",
                             map |-> out.rebase_map])
       IN  Recorded(rebase_descendants_with_options(tx[1]))

\* Lines 822 and 871: the descendants are rebased.
RebaseDescendants ==
    /\ mpc \in {"L822", "L871"}
    /\ tx' = Some(rebase_descendants(tx[1]))
    /\ mpc' = "L874"
    /\ UNCHANGED locals
    /\ Step([op |-> "rebase_descendants",
             map |-> rebase_descendants_with_options(tx[1]).rebase_map])

\* WorkspaceSession::finish_transaction: a transaction that changed nothing
\* is not committed.
has_changes(t, r) == t.visible # r.visible

\* Lines 874-885: the transaction is finished.
FinishTransaction ==
    /\ mpc = "L874"
    /\ IF has_changes(tx[1], repo)
       THEN /\ repo' = [commits |-> tx[1].commits, visible |-> tx[1].visible]
            /\ outcome' = Some(Ok(Updated))
            /\ steps' = Append(steps, [op |-> "commit"])
       ELSE /\ outcome' = Some(Ok(Unchanged))
            /\ UNCHANGED <<repo, steps>>
    /\ tx' = None
    /\ mpc' = "done"
    /\ UNCHANGED <<immutable_ids, from_id, to_id, locals>>
    /\ UNCHANGED <<layoutVars, diffVars, applyVars, untrackVars>>

NextMove ==
    \/ MoveCheck
    \/ RewriteDestination
    \/ ModifySource
    \/ RebaseRecording
    \/ RebaseDescendants
    \/ FinishTransaction

SpecMove == InitMove /\ [][NextMove]_vars

\* ------------------------------------------------- CopyHunk: the contents
\* The text of a sequence of bytes, for the messages.
RECURSIVE Text(_)
Text(s) == IF s = <<>> THEN "" ELSE s[1] \o Text(Tail(s))

\* Lines 919 and 974: the end of the range lies behind the last line.
Overflows_inclusive(end_0based, count) == end_0based >= count

Overflows(end_0based, count) == end_0based > count

FirstDifference_last(expected, actual) ==
    LET differing == {i \in 1..Len(expected) : expected[i] # actual[i]}
    IN  IF differing = {} THEN None
        ELSE Some(CHOOSE i \in differing : \A j \in differing : j <= i)

\* Lines 950-963: the first pair of lines that differ, counted from 1.
FirstDifference(expected, actual) ==
    LET differing == {i \in 1..Len(expected) : expected[i] # actual[i]}
    IN  IF differing = {} THEN None ELSE Some(Min(differing))

\* Lines 983-1003: the destination's lines with the region of the source in
\* the place of the range, a line feed between the lines, and one at the end
\* when the destination ended with one and the result does not.
SpliceContent(to_content, to_lines, to_start, to_end, source_region_lines) ==
    LET Terminated(bytes) ==
            IF /\ to_content # <<>> /\ to_content[Len(to_content)] = "\n"
               /\ bytes # <<>>
               /\ bytes[Len(bytes)] # "\n"
            THEN Append(bytes, "\n")
            ELSE bytes
    IN  Terminated(JoinLines(SubSeq(to_lines, 1, to_start)
                             \o source_region_lines
                             \o SubSeq(to_lines, to_end + 1, Len(to_lines))))

\* CopyHunk::execute, lines 911-1007: the bounds of the two ranges, the
\* validation of the destination's lines, the new content. The result is a
\* MutationResult, a failure, or the content to write.
CopyContent(to_content, from_content, h) ==
    LET Checked(to_lines, from_lines, to_start, to_end, from_start, from_end) ==
            LET Validated(expected, actual) ==
                    LET Differs(first) ==
                            IF first # None
                            THEN Err("Hunk validation failed at line "
                                     \o ToString(to_start + first[1])
                                     \o ": expected '" \o Text(expected[first[1]])
                                     \o "', found '" \o Text(actual[first[1]]) \o "'")
                            ELSE IF Overflows(from_end, Len(from_lines))
                            THEN Ok(PreconditionError(
                                     "Source hunk location out of bounds: file has "
                                     \o ToString(Len(from_lines))
                                     \o " lines, hunk requires lines "
                                     \o ToString(h.location.from_file.start) \o "-"
                                     \o ToString(from_end)))
                            ELSE [tag |-> "Write",
                                  content |-> SpliceContent(to_content, to_lines,
                                      to_start, to_end,
                                      SubSeq(from_lines, from_start + 1, from_end))]
                    IN  IF Len(expected) # Len(actual)
                        THEN Err("Hunk validation failed: expected "
                                 \o ToString(Len(expected)) \o " lines, found "
                                 \o ToString(Len(actual)) \o " lines at destination")
                        ELSE Differs(FirstDifference(expected, actual))
                Kept(diff_line) == diff_line # <<>> /\ diff_line[1] \in {" ", "+"}
                Expected(kept) == [k \in 1..Len(kept) |-> trim_end(Tail(kept[k]))]
            IN  IF Overflows(to_end, Len(to_lines))
                THEN Ok(PreconditionError(
                         "Hunk location out of bounds: file has "
                         \o ToString(Len(to_lines)) \o " lines, hunk requires lines "
                         \o ToString(h.location.to_file.start) \o "-"
                         \o ToString(to_end)))
                ELSE Validated(Expected(SelectSeq(h.lines.lines, Kept)),
                               [k \in 1..(to_end - to_start) |->
                                   trim_end(to_lines[to_start + k])])
        Ranged(to_start, from_start) ==
            Checked(str_lines(to_content), str_lines(from_content),
                    to_start, to_start + h.location.to_file.len,
                    from_start, from_start + h.location.from_file.len)
        Written(out) ==
            IF out.tag = "Write" /\ out.content = to_content THEN Ok(Unchanged) ELSE out
    IN  Written(Ranged(saturating_sub(h.location.to_file.start, 1),
                       saturating_sub(h.location.from_file.start, 1)))

\* --------------------------------------------------- CopyHunk: the inputs
\* The longest range of lines a hunk names.
MaxCopyLen == 2

\* The contents of the file at the path: two lines; two lines, the last
\* without its line feed; a line and a blank line; a line that ends with a
\* space; one line without its line feed.
CopyFiles ==
    {<<"a", "\n", "b", "\n">>, <<"a", "\n", "b">>, <<"b", "\n", "\n">>,
     <<"a", " ", "\n", "b", "\n">>, <<"a">>}

\* The values of the path in a tree: a file, or a conflict of two files.
CopyTrees ==
    {Resolved(Some(f)) : f \in CopyFiles}
        \cup {[adds |-> <<Some(<<"a", "\n", "b", "\n">>), Some(<<"a">>)>>,
               removes |-> <<None>>]}

\* The repositories: a chain of commits on the root, or the last commit
\* beside the chain.
CopyRepositories ==
    {[commits |-> [i \in 0..MaxMoveCommits |->
                      IF i = 0
                      THEN [parents |-> <<>>, tree |-> Resolved(None), description |-> ""]
                      ELSE [parents |-> <<IF i = MaxMoveCommits THEN last ELSE i - 1>>,
                            tree |-> trees[i],
                            description |-> DescriptionOf(i)]],
      visible |-> 0..MaxMoveCommits]
        : last \in 1..(MaxMoveCommits - 1),
          trees \in [1..MaxMoveCommits -> CopyTrees]}

\* The hunks a client may send: a range of the source, a range of the
\* destination, and the lines of the diff between them.
CopyHunks ==
    {[location |-> [from_file |-> [start |-> fs, len |-> fl],
                    to_file   |-> [start |-> ts, len |-> tl]],
      lines |-> [lines |-> ls]]
        : fs \in 1..2, fl \in 0..MaxCopyLen, ts \in 1..2, tl \in 0..MaxCopyLen,
          ls \in {<<>>,
                  <<HunkLine(" ", "a")>>,
                  <<HunkLine("+", "b")>>,
                  <<HunkLine(" ", "a"), HunkLine("+", "b")>>,
                  <<HunkLine(" ", "a"), HunkLine("+", "a")>>,
                  <<HunkLine("-", "b"), HunkLine("+", "a")>>}}

\* A CopyHunk mutation is about to run on a repository; the commits that
\* take no part in it hold the first file.
InitCopy ==
    /\ LayoutIdle
    /\ UntrackIdle
    /\ DiffIdle
    /\ repo \in CopyRepositories
    /\ immutable_ids \in {{0}, {0, 1}}
    /\ from_id \in 1..MaxMoveCommits
    /\ to_id \in 1..MaxMoveCommits
    /\ \A i \in 1..MaxMoveCommits :
           i \notin {from_id, to_id} =>
               repo.commits[i].tree = Resolved(Some(<<"a", "\n", "b", "\n">>))
    /\ \E h \in CopyHunks : self_hunk = Some(h)
    /\ base_content = <<>>
    /\ applied = None
    /\ tx = None
    /\ locals = None
    /\ mpc = "copy"
    /\ outcome = None
    /\ steps = <<>>

\* ---------------------------------------------------- CopyHunk: the steps
\* Lines 892-1007: the transaction is started; the preconditions, the
\* validation and the new content of the destination.
CopyCheck ==
    /\ mpc = "copy"
    /\ UNCHANGED <<repo, immutable_ids, from_id, to_id, steps>>
    /\ UNCHANGED <<layoutVars, diffVars, applyVars, untrackVars>>
    /\ IF check_immutable({to_id})
       THEN Leave(Ok(PreconditionError("Revision is immutable"))) /\ UNCHANGED locals
       ELSE IF ~is_resolved(repo.commits[to_id].tree)
       THEN /\ Leave(Ok(PreconditionError(
                     "Cannot restore hunk: destination file has conflicts")))
            /\ UNCHANGED locals
       ELSE LET Decided(out) ==
                    IF out.tag # "Write"
                    THEN Leave(out) /\ UNCHANGED locals
                    ELSE /\ locals' = Some([new_to_content |-> out.content])
                         /\ tx' = Some(start_transaction(repo))
                         /\ mpc' = "C1010"
                         /\ UNCHANGED outcome
            IN  Decided(CopyContent(read_file_content(repo.commits[to_id].tree),
                                    read_file_content(repo.commits[from_id].tree),
                                    self_hunk[1]))

\* Lines 1010-1028: the file and the tree are written, the destination is
\* rewritten with the tree, its descendants are rebased.
CopyRewrite ==
    /\ mpc = "C1010"
    /\ LET Rebased(rewritten) ==
               /\ tx' = Some(rebase_descendants(rewritten))
               /\ steps' = steps \o
                      <<[op |-> "rewrite_destination",
                         old |-> to_id,
                         new |-> NewId(tx[1])],
                        [op |-> "rebase_descendants",
                         map |-> rebase_descendants_with_options(rewritten).rebase_map]>>
       IN  Rebased(rewrite_commit(tx[1], to_id,
                       update_tree_entry(tx[1].commits[to_id].tree,
                                         locals[1].new_to_content),
                       tx[1].commits[to_id].description))
    /\ mpc' = "C1030"
    /\ UNCHANGED <<repo, immutable_ids, from_id, to_id, locals, outcome>>
    /\ UNCHANGED <<layoutVars, diffVars, applyVars, untrackVars>>

\* Lines 1030-1039: the transaction is finished.
CopyFinish ==
    /\ mpc = "C1030"
    /\ IF has_changes(tx[1], repo)
       THEN /\ repo' = [commits |-> tx[1].commits, visible |-> tx[1].visible]
            /\ outcome' = Some(Ok(Updated))
            /\ steps' = Append(steps, [op |-> "commit"])
       ELSE /\ outcome' = Some(Ok(Unchanged))
            /\ UNCHANGED <<repo, steps>>
    /\ tx' = None
    /\ mpc' = "done"
    /\ UNCHANGED <<immutable_ids, from_id, to_id, locals>>
    /\ UNCHANGED <<layoutVars, diffVars, applyVars, untrackVars>>

NextCopy ==
    \/ CopyCheck
    \/ CopyRewrite
    \/ CopyFinish

SpecCopy == InitCopy /\ [][NextCopy]_vars

\* A MoveHunk or a CopyHunk mutation runs on a repository.
SpecMutation == (InitMove \/ InitCopy) /\ [][NextMove \/ NextCopy]_vars

\* ------------------------------------------------------- UntrackBranch
\* The remotes besides the one of the colocated git repository.
MaxRemotes == 3

\* REMOTE_NAME_FOR_LOCAL_GIT_REPO.
git_remote == 0

\* The states of the branch's bookmark on a remote: none there, one that is
\* not tracked, a tracked one.
RemoteRefStates == {"absent", "new", "tracked"}

\* What running `jj bookmark untrack` gives: the command succeeded, it
\* exited with a failure status, it could not be run.
RunJjOutcomes == {"success", "failure", "error"}

\* remote_bookmarks_matching(exact(branch_name), all()): the remotes that
\* hold a bookmark of the name, in the order of their names.
RECURSIVE remote_bookmarks_matching(_, _)
remote_bookmarks_matching(view, remote) ==
    IF remote > MaxRemotes THEN <<>>
    ELSE (IF view[remote] # "absent" THEN <<remote>> ELSE <<>>)
             \o remote_bookmarks_matching(view, remote + 1)

\* An UntrackBranch mutation is about to run; the session is loaded at the
\* head operation.
InitUntrack ==
    /\ LayoutIdle
    /\ DiffIdle
    /\ ApplyIdle
    /\ MoveIdle
    /\ store_remotes \in [0..MaxRemotes -> RemoteRefStates]
    /\ view_remotes = store_remotes
    /\ self_ref \in {"Tag", "LocalBookmark"}
    /\ remote_iter = <<>>
    /\ upc = "idle"
    /\ untracked = None

\* Lines 430-438: the match on the ref; the iterator over the remotes.
UntrackEnter ==
    /\ upc = "idle"
    /\ untracked = None
    /\ IF self_ref = "Tag"
       THEN /\ untracked' = Some(Ok(PreconditionError("is a tag and cannot be untracked")))
            /\ upc' = "done"
            /\ UNCHANGED remote_iter
       ELSE /\ remote_iter' = remote_bookmarks_matching(view_remotes, 0)
            /\ upc' = "loop"
            /\ UNCHANGED untracked
    /\ UNCHANGED <<store_remotes, view_remotes, self_ref>>
    /\ UNCHANGED <<layoutVars, diffVars, applyVars, moveVars>>

\* Lines 439-466, one iteration: a remote that is the git repository or is
\* not tracked is passed over; for another one the command is run, and a
\* command that does not succeed ends execute.
UntrackRemote ==
    /\ upc = "loop"
    /\ remote_iter # <<>>
    /\ LET remote == Head(remote_iter)
       IN  IF remote = git_remote \/ view_remotes[remote] # "tracked"
           THEN /\ remote_iter' = Tail(remote_iter)
                /\ UNCHANGED <<store_remotes, upc, untracked>>
           ELSE \E result \in RunJjOutcomes :
                    CASE result = "success" ->
                             /\ store_remotes' = [store_remotes EXCEPT ![remote] = "new"]
                             /\ remote_iter' = Tail(remote_iter)
                             /\ UNCHANGED <<upc, untracked>>
                      [] result = "failure" ->
                             /\ untracked' = Some(Ok(PreconditionError("stderr")))
                             /\ upc' = "done"
                             /\ UNCHANGED <<store_remotes, remote_iter>>
                      [] result = "error" ->
                             /\ untracked' = Some(Err("Failed to execute jj bookmark untrack"))
                             /\ upc' = "done"
                             /\ UNCHANGED <<store_remotes, remote_iter>>
    /\ UNCHANGED <<view_remotes, self_ref>>
    /\ UNCHANGED <<layoutVars, diffVars, applyVars, moveVars>>

\* Lines 468-471: the session is loaded at the head operation.
UntrackFinish ==
    /\ upc = "loop"
    /\ remote_iter = <<>>
    /\ view_remotes' = store_remotes
    /\ untracked' = Some(Ok(Updated))
    /\ upc' = "done"
    /\ UNCHANGED <<store_remotes, self_ref, remote_iter>>
    /\ UNCHANGED <<layoutVars, diffVars, applyVars, moveVars>>

NextUntrack ==
    \/ UntrackEnter
    \/ UntrackRemote
    \/ UntrackFinish

SpecUntrack == InitUntrack /\ [][NextUntrack]_vars

\* ------------------------------------------------- layout: the properties
Revisions(rs) == [k \in 1..Len(rs) |-> rs[k].revision.id]

HasLineOfKind(log_row, kind) ==
    \E k \in 1..Len(log_row.lines) : log_row.lines[k].kind = kind

Returned == pc = "idle" /\ page # None

\* C1: over all get_page calls of one QuerySession, the commits the iterator
\* has yielded are exactly the revisions of the emitted rows, in order, no
\* revision appears in two rows, and once the iterator is exhausted every
\* commit of the history has its row.
C1_EveryCommitOneRow ==
    /\ Revisions(emitted) = yielded
    /\ \A a, b \in 1..Len(emitted) :
          a # b => emitted[a].revision.id # emitted[b].revision.id
    /\ iter = Len(history) =>
          \A c \in 1..Len(history) : \E k \in 1..Len(emitted) : emitted[k].revision.id = c

C1_Witness ==
    /\ Returned
    /\ Len(history) >= 3
    /\ Len(emitted) = Len(history)
    /\ Len(page[1].rows) < Len(emitted)
    /\ \E k \in 1..Len(emitted) : HasLineOfKind(emitted[k], "ToMissing")

\* C2: after get_page has processed any commit (the boundary step included),
\* the stem vector is empty or its last slot holds a stem.
C2_NoTrailingEmptySlot == stems = <<>> \/ stems[Len(stems)] # None

\* C3: when the iterator is exhausted no stem is left in the stem vector.
C3_NoStemAtExhaustion ==
    iter = Len(history) => \A s \in 1..Len(stems) : stems[s] = None

\* C4: a get_page call with page size p returns at most p rows and advances
\* next_row by at most p (max is the next_row of entry plus p).
C4_PageWithinSize ==
    Returned => Len(page[1].rows) <= page_size /\ next_row <= max

\* C5: has_more of the returned page is true exactly when the iterator has a
\* commit left, and when it is false every commit of the history is the
\* revision of an emitted row.
C5_HasMore ==
    Returned =>
        /\ page[1].has_more <=> iter < Len(history)
        /\ ~page[1].has_more =>
              \A c \in 1..Len(history) :
                  \E k \in 1..Len(emitted) : emitted[k].revision.id = c

C5_Witness ==
    /\ Returned
    /\ ~page[1].has_more
    /\ Len(history) >= 2
    /\ page[1].rows # <<>>
    /\ Len(page[1].rows) < Len(emitted)

\* C6: a QuerySession rebuilt from the saved QueryState continues at the first
\* commit that has no row yet: the iterator's position equals the number of
\* emitted rows, and the emitted revisions are 1, 2, ... without gap or repeat.
C6_ResumeContinues ==
    resumed =>
        /\ iter = Len(emitted)
        /\ Revisions(emitted) = [k \in 1..Len(emitted) |-> k]

\* A linear chain: every commit's only edge goes to the next commit, and the
\* last commit's only edge is a Missing edge to the root commit.
IsLinearChain(h) ==
    /\ \A i \in 1..(Len(h) - 1) :
          Len(h[i]) = 1 /\ h[i][1].target = i + 1 /\ h[i][1].edge_type # "Missing"
    /\ h[Len(h)] = <<[target |-> root_id, edge_type |-> "Missing"]>>

RECURSIVE CountLines(_)
CountLines(rs) ==
    IF rs = <<>> THEN 0 ELSE Len(rs[1].lines) + CountLines(Tail(rs))

FirstPageOfChain ==
    /\ Returned
    /\ IsLinearChain(history)
    /\ page_size = Len(history)
    /\ page[1].rows = emitted

\* C7: for a linear chain of n commits ending in a Missing edge to the root,
\* the first get_page with page size n returns the n rows in traversal order,
\* has_more = false and n - 1 lines, the k-th terminating in row k the stem
\* that commit k created in column 0 of row k - 1.
C7_LinearChainPage ==
    FirstPageOfChain =>
        LET n == Len(history)
            p == page[1]
        IN  /\ Revisions(p.rows) = [k \in 1..n |-> k]
            /\ ~p.has_more
            /\ CountLines(p.rows) = n - 1
            /\ p.rows[1].lines = <<>>
            /\ \A k \in 2..n :
                  p.rows[k].lines =
                      <<[kind |-> "ToNode",
                         indirect |-> history[k - 1][1].edge_type # "Direct",
                         source |-> LogCoordinates(0, k - 2),
                         target |-> LogCoordinates(0, k - 1)]>>

C7_Witness == FirstPageOfChain /\ Len(history) = 2 /\ Len(page[1].rows) = 2

\* --------------------------------------------------- diff: the properties
Diffed == unified # None

\* The walk of the round trip: from line pos of the left buffer l, copy the
\* lines in front of each hunk, then follow the hunk's lines: a context line
\* is emitted and passes one left line, a removed line passes one left line,
\* an added line is emitted.
Emits(h) ==
    LET keep(x) == x[1] # "-"
        kept == SelectSeq(h.lines, keep)
    IN  [k \in 1..Len(kept) |-> kept[k][2]]

Passes(h) ==
    LET old(x) == x[1] # "+"
    IN  Len(SelectSeq(h.lines, old))

RECURSIVE ApplyHunks(_, _, _, _)
ApplyHunks(l, hs, k, pos) ==
    IF k > Len(hs) THEN SubSeq(l, pos, Len(l))
    ELSE LET start == hs[k].location.from_file.start
         IN  SubSeq(l, pos, start - 1) \o Emits(hs[k])
                 \o ApplyHunks(l, hs, k + 1, start + Passes(hs[k]))

\* C8: the unified diff of a buffer against itself has no hunks, for every
\* context size.
C8_SelfDiffEmpty ==
    Diffed /\ left_content = right_content => unified[1] = <<>> /\ hunks[1] = <<>>

C8_Witness ==
    Diffed /\ left_content = right_content /\ Len(left_content) >= 3 /\ context >= 1

\* C9: walking the hunks in order from the left buffer reconstructs the right
\* buffer, for all buffers and every context size.
C9_RoundTrip ==
    Diffed => ApplyHunks(left_content, unified[1], 1, 1) = right_content

C9_Witness ==
    /\ Diffed
    /\ Len(unified[1]) >= 2
    /\ unified[1][1].location.from_file.start > 1
    /\ \E k \in 1..Len(unified[1]) : unified[1][k].location.from_file.len = 0

OriginsOf(h) == {h.lines[k].origin : k \in 1..Len(h.lines)}

ContextFrom(h, origin) ==
    LET from(x) == x.type = "Context" /\ x.origin = origin
        kept == SelectSeq(h.lines, from)
    IN  [k \in 1..Len(kept) |-> kept[k].content]

\* The Matching hunks of the diff that lie between two change regions.
Separators == {k \in 2..(Len(diff) - 1) : diff[k].kind = "Matching"}

\* C10: two consecutive change regions separated by fewer than 2 * context
\* matching lines are in one hunk, and that hunk carries all the matching
\* lines between them as context lines.
C10_CloseRegionsMerged ==
    Diffed =>
        \A k \in Separators :
            Len(diff[k].right) < 2 * context =>
                \E n \in 1..Len(hunks[1]) :
                    /\ {k - 1, k + 1} \subseteq OriginsOf(hunks[1][n])
                    /\ ContextFrom(hunks[1][n], k) = diff[k].right

C10_Witness ==
    /\ Diffed
    /\ \E k \in Separators : Len(diff[k].right) = 2 /\ context = 2
    /\ Len(hunks[1]) = 1

\* The context lines in front of the first changed line of a hunk, and those
\* behind its last changed line.
RECURSIVE LeadingContext(_)
LeadingContext(ls) ==
    IF ls = <<>> \/ ls[1][1] # " " THEN 0 ELSE 1 + LeadingContext(Tail(ls))

RECURSIVE TrailingContext(_)
TrailingContext(ls) ==
    IF ls = <<>> \/ ls[Len(ls)][1] # " " THEN 0
    ELSE 1 + TrailingContext(SubSeq(ls, 1, Len(ls) - 1))

\* C11: every hunk produced with context size n has an added or a removed
\* line, at most n context lines in front of its first added or removed line
\* and at most n context lines behind its last one.
C11_ContextBounded ==
    Diffed =>
        \A n \in 1..Len(unified[1]) :
            LET ls == unified[1][n].lines
            IN  /\ \E k \in 1..Len(ls) : ls[k][1] \in {"-", "+"}
                /\ LeadingContext(ls) <= context
                /\ TrailingContext(ls) <= context

C11_Witness ==
    /\ Diffed
    /\ context = 1
    /\ Len(unified[1]) = 2
    /\ LeadingContext(unified[1][2].lines) = 1
    /\ TrailingContext(unified[1][1].lines) = 1

\* The lines of the buffers in front of the k-th hunk of the line diff.
RECURSIVE LeftLinesBefore(_)
LeftLinesBefore(k) ==
    IF k <= 1 THEN 0 ELSE Len(diff[k - 1].left) + LeftLinesBefore(k - 1)

RECURSIVE RightLinesBefore(_)
RightLinesBefore(k) ==
    IF k <= 1 THEN 0 ELSE Len(diff[k - 1].right) + RightLinesBefore(k - 1)

\* How many lines of a hunk carry one of the markers.
CountMarked(ls, markers) ==
    LET marked(x) == x[1] \in markers
    IN  Len(SelectSeq(ls, marked))

\* The line numbers of the first line of hunk n: a hunk that starts with
\* context starts with the last lines of a Matching hunk of the line diff,
\* any other hunk starts where a Different hunk of the line diff starts.
FirstLine(n, before(_), side(_)) ==
    LET h == hunks[1][n]
        o == h.lines[1].origin
    IN  IF h.lines[1].type = "Context"
        THEN before(o) + Len(side(diff[o])) - LeadingContext(unified[1][n].lines) + 1
        ELSE before(o) + 1

\* C12: for every hunk of get_unified_hunks, from_file.start and to_file.start
\* are the 1-based line numbers of the hunk's first line in the left and in the
\* right buffer (one more than the lines in front of the hunk), from_file.len is
\* the number of its context and removed lines, to_file.len the number of its
\* context and added lines.
C12_HunkLocation ==
    Diffed =>
        \A n \in 1..Len(unified[1]) :
            LET loc == unified[1][n].location
                ls  == unified[1][n].lines
                lft(d) == d.left
                rgt(d) == d.right
            IN  /\ loc.from_file.start = FirstLine(n, LeftLinesBefore, lft)
                /\ loc.to_file.start = FirstLine(n, RightLinesBefore, rgt)
                /\ loc.from_file.len = CountMarked(ls, {" ", "-"})
                /\ loc.to_file.len = CountMarked(ls, {" ", "+"})

C12_Witness ==
    /\ Diffed
    /\ \E n \in 1..Len(unified[1]) :
          LET loc == unified[1][n].location
          IN  /\ loc.from_file.start > 1
              /\ loc.from_file.start # loc.to_file.start
              /\ loc.from_file.len # loc.to_file.len
              /\ unified[1][n].lines[1][1] = " "

\* ------------------------------------------ apply_hunk_to_base: properties
Applied == applied # None

\* The text of a hunk line: what follows the marker, without the line feed
\* that ends the line.
LineText(diff_line) ==
    LET rest == Tail(diff_line)
    IN  IF rest # <<>> /\ rest[Len(rest)] = "\n" THEN SubSeq(rest, 1, Len(rest) - 1)
        ELSE rest

\* The context and removed lines of a hunk.
IsOldLine(diff_line) == diff_line # <<>> /\ diff_line[1] \in {" ", "-"}

\* The 0-based index of the base line that the k-th line of the hunk stands
\* at: from_file.start - 1 plus the context and removed lines in front of it.
RunningOffset(h, k) ==
    saturating_sub(h.location.from_file.start, 1)
        + Cardinality({j \in 1..(k - 1) : IsOldLine(h.lines.lines[j])})

\* The k-th line of the hunk is the base line at its running offset.
EqualsBaseLine(h, k) ==
    LET base_lines == str_lines(base_content)
    IN  /\ RunningOffset(h, k) < Len(base_lines)
        /\ base_lines[RunningOffset(h, k) + 1] = LineText(h.lines.lines[k])

\* C14: apply_hunk_to_base passes a hunk only if every context and every
\* removed line of the hunk equals the line of the base file at the running
\* offset; a hunk with a line that differs is refused.
C14_MismatchIsError ==
    Applied /\ applied[1].tag = "Ok" =>
        \A k \in 1..Len(self_hunk[1].lines.lines) :
            IsOldLine(self_hunk[1].lines.lines[k]) => EqualsBaseLine(self_hunk[1], k)

\* -------------------------------------------------- MoveHunk: properties
Finished == mpc = "done"

\* execute got as far as computing the trees of the move.
Prepared == locals # None

\* The repository operations of execute so far, by name.
Ops == [k \in 1..Len(steps) |-> steps[k].op]

\* The repository holds the commits it held before the mutation, all visible.
RepoUntouched ==
    /\ DOMAIN repo.commits = 0..MaxMoveCommits
    /\ repo.visible = 0..MaxMoveCommits

\* C13: when the source or the destination is immutable, or the source has
\* more than one parent, MoveHunk returns a PreconditionError, has rewritten
\* or abandoned no commit and has committed no transaction.
C13_PreconditionError ==
    Finished /\ (\/ {from_id, to_id} \cap immutable_ids # {}
                 \/ Len(repo.commits[from_id].parents) > 1) =>
        /\ outcome[1] \in {Ok(PreconditionError("Revisions are immutable")),
                           Ok(PreconditionError("Cannot move hunk from a merge commit"))}
        /\ steps = <<>>
        /\ tx = None
        /\ RepoUntouched

C13_Witness ==
    /\ Finished
    /\ Len(repo.commits[from_id].parents) = 2
    /\ {from_id, to_id} \cap immutable_ids = {}
    /\ outcome[1] = Ok(PreconditionError("Cannot move hunk from a merge commit"))

\* The commits the log gives as written in place of a commit: by a rewrite
\* or by a rebase, directly or through other such commits.
DirectSuccessors(id) ==
    {steps[k].new : k \in {j \in 1..Len(steps) :
                              /\ steps[j].op \in {"rewrite_destination", "rewrite_source"}
                              /\ steps[j].old = id}}
        \cup {steps[k].map[id] : k \in {j \in 1..Len(steps) :
                              /\ steps[j].op \in {"rebase_descendants",
                                                  "rebase_descendants_with_options"}
                              /\ id \in DOMAIN steps[j].map}}

RECURSIVE SuccessorsOf(_)
SuccessorsOf(id) ==
    DirectSuccessors(id) \cup UNION {SuccessorsOf(n) : n \in DirectSuccessors(id)}

MoveCommitted == Finished /\ outcome[1] = Ok(Updated)

\* C15: after a committed MoveHunk the source has no successor in the
\* resulting graph exactly when the remainder tree equals the tree of the
\* source's parent; otherwise the source was rewritten with the remainder
\* tree and has a successor in the graph.
C15_AbandonIffEmpty ==
    MoveCommitted =>
        LET l == locals[1]
            successors == SuccessorsOf(from_id) \cap repo.visible
        IN  /\ from_id \notin repo.visible
            /\ l.remainder_tree = l.base_tree <=> successors = {}
            /\ l.remainder_tree # l.base_tree =>
                  \E k \in 1..Len(steps) :
                      /\ steps[k].op = "rewrite_source"
                      /\ steps[k].old = from_id
                      /\ steps[k].tree = l.remainder_tree
                      /\ steps[k].new \in SuccessorsOf(from_id)

\* The entries of the log with one of the names.
Entries(names) == {k \in 1..Len(steps) : steps[k].op \in names}

\* C16: the commit MoveHunk writes for the destination carries, when the
\* source is abandoned, the destination's description, a newline and the
\* source's description, each of the two alone when the other is empty, and
\* the destination's own description when the source is not abandoned.
C16_DestinationDescription ==
    MoveCommitted =>
        LET source      == repo.commits[from_id].description
            destination == repo.commits[to_id].description
            abandoned   == Entries({"abandon_source"}) # {}
            expected    == IF ~abandoned THEN destination
                           ELSE IF source = "" THEN destination
                           ELSE IF destination = "" THEN source
                           ELSE destination \o "\n" \o source
        IN  /\ Cardinality(Entries({"rewrite_destination"})) = 1
            /\ \A k \in Entries({"rewrite_destination"}) :
                  /\ steps[k].description = expected
                  /\ steps[k].new \in repo.visible
                  /\ repo.commits[steps[k].new].description = expected

C16_Witness ==
    /\ MoveCommitted
    /\ from_id # to_id
    /\ Entries({"abandon_source"}) # {}
    /\ \E k \in Entries({"rewrite_destination"}) :
          repo.commits[steps[k].new].description = "one\nthree"

\* A sequence is a beginning of another.
IsPrefix(s, t) == Len(s) <= Len(t) /\ s = SubSeq(t, 1, Len(s))

\* The operations of the log that change the graph, without the commit of the
\* transaction.
GraphOps == SelectSeq(Ops, LAMBDA op : op # "commit")

SourceOps == {"abandon_source", "rewrite_source"}

\* The names of the log follow the order, the second of them being one of
\* the two ways to modify the source.
FollowsOrder(ops, order) ==
    /\ Len(ops) <= Len(order)
    /\ \A k \in 1..Len(ops) :
          IF order[k] = "source" THEN ops[k] \in SourceOps ELSE ops[k] = order[k]

DestinationFirst == <<"rewrite_destination", "source", "rebase_descendants">>

\* C17: when the destination is an ancestor of the source, MoveHunk rewrites
\* the destination with new_destination, then abandons or rewrites the
\* source, then rebases descendants, once and not between the two rewrites.
C17_DestinationAncestorOrder ==
    Prepared /\ locals[1].to_is_ancestor =>
        /\ FollowsOrder(GraphOps, DestinationFirst)
        /\ Finished => Len(GraphOps) = Len(DestinationFirst)
        /\ \A k \in Entries({"rewrite_destination"}) :
              /\ steps[k].old = to_id
              /\ steps[k].tree = locals[1].new_to_tree
        /\ \A k \in Entries({"rewrite_source"}) :
              /\ steps[k].old = from_id
              /\ steps[k].tree = locals[1].remainder_tree
        /\ \A k \in Entries({"abandon_source"}) : steps[k].old = from_id

C17_Witness ==
    /\ MoveCommitted
    /\ from_id # to_id
    /\ locals[1].to_is_ancestor
    /\ Ops = <<"rewrite_destination", "rewrite_source", "rebase_descendants", "commit">>
    /\ steps[3].map # <<>>

\* The commits written so far: those of the open transaction, or of the
\* repository once execute has returned.
CommitsNow == IF tx # None THEN tx[1].commits ELSE repo.commits

SourceFirstRecorded ==
    <<"source", "rebase_descendants_with_options", "rewrite_destination",
      "rebase_descendants">>

\* The source is an ancestor of the destination and not the destination.
SourceIsStrictAncestor ==
    Prepared /\ locals[1].from_is_ancestor /\ ~locals[1].to_is_ancestor

Unrelated ==
    Prepared /\ ~locals[1].from_is_ancestor /\ ~locals[1].to_is_ancestor

\* The commits the repository held before the mutation that descend neither
\* from the source nor from the destination.
Bystanders ==
    {c \in 0..MaxMoveCommits :
        /\ ~is_ancestor(repo.commits, from_id, c)
        /\ ~is_ancestor(repo.commits, to_id, c)}

\* The old commits the log names as rewritten, abandoned or rebased.
Touched ==
    UNION {IF steps[k].op \in {"rebase_descendants", "rebase_descendants_with_options"}
           THEN DOMAIN steps[k].map
           ELSE IF steps[k].op = "commit" THEN {} ELSE {steps[k].old}
              : k \in 1..Len(steps)}

MovesWholeChangeOntoItself ==
    /\ Prepared
    /\ from_id = to_id
    /\ locals[1].sibling_tree = repo.commits[from_id].tree

\* C20: moving a hunk that, applied to the base, gives the content of the
\* source, with the source as the destination, yields Unchanged and commits
\* no transaction.
C20_SameCommitUnchanged ==
    Finished /\ MovesWholeChangeOntoItself =>
        /\ outcome[1] = Ok(Unchanged)
        /\ Entries({"commit"}) = {}
        /\ RepoUntouched

\* The hunk does not lie in the base file: it starts behind the last line,
\* or its context and removed lines run past the last line.
HunkOutOfBounds ==
    LET h == self_hunk[1]
        hunk_start == saturating_sub(h.location.from_file.start, 1)
    IN  \/ hunk_start > Len(str_lines(base_content))
        \/ RunningOffset(h, Len(h.lines.lines) + 1) > Len(str_lines(base_content))

\* C27: a MoveHunk whose hunk location is out of bounds for the base file
\* ends in a reported error, a precondition error or a failure, with the
\* repository as it was; execute does not end abnormally.
C27_OutOfBoundsReported ==
    Finished /\ Applied /\ HunkOutOfBounds =>
        /\ outcome[1].tag \in {"Ok", "Err"}
        /\ outcome[1] \notin {Ok(Updated), Ok(Unchanged)}
        /\ RepoUntouched

\* ------------------------------------------ layout: column and padding
\* A commit was laid out in this step.
RowEmitted == Len(emitted') > Len(emitted)

\* The slots of the stem vector that hold a stem to the commit.
SlotsTargeting(v, id) ==
    {s \in 0..(Len(v) - 1) : v[s + 1] # None /\ v[s + 1][1].target = id}

EmptySlots(v) == {s \in 0..(Len(v) - 1) : v[s + 1] = None}

\* The row of the commit laid out in this step terminates a stem.
TerminatesStem(log_row) == HasLineOfKind(log_row, "ToNode") \/ HasLineOfKind(log_row, "FromNode")

StemTargetsVisited == RowEmitted /\ SlotsTargeting(stems, yielded'[Len(yielded')]) # {}

\* C29, as the specification states it: when a stem targets the visited
\* commit, the row's padding is the number of occupied slots right of the
\* commit's column.
C29_PaddingCountsStems ==
    [][StemTargetsVisited =>
          LET log_row == emitted'[Len(emitted')]
              column  == log_row.location[1]
          IN  log_row.padding =
                  Cardinality({s \in (column + 1)..(Len(stems) - 1) :
                                  stems[s + 1] # None})]_vars

\* C29, amended: when a stem targets the visited commit, the row's padding
\* is the number of slots of the stem vector right of the commit's column,
\* the empty ones counted.
C29_PaddingCountsSlots ==
    [][StemTargetsVisited =>
          LET log_row == emitted'[Len(emitted')]
          IN  log_row.padding = Len(stems) - log_row.location[1] - 1]_vars

\* A commit with a stem was laid out left of other slots.
C29_Witness ==
    \E k \in 1..Len(emitted) :
        /\ TerminatesStem(emitted[k])
        /\ emitted[k].padding > 0

\* ------------------------------------------------ layout: immutability
\* C30: is_immutable is called at most once for a visited commit and not at
\* all for a commit whose terminated stem is known immutable, which is
\* reported immutable; a stem created by a commit records the immutability
\* reported for that commit.
C30_ImmutabilityPropagation ==
    [][RowEmitted =>
          LET commit_id == yielded'[Len(yielded')]
              log_row   == emitted'[Len(emitted')]
              targeting == SlotsTargeting(stems, commit_id)
              known     == /\ targeting # {}
                           /\ stems[Min(targeting) + 1][1].known_immutable
              calls     == SubSeq(evaluated', Len(evaluated) + 1, Len(evaluated'))
          IN  /\ Len(calls) <= 1
              /\ \A k \in 1..Len(calls) : calls[k] = commit_id
              /\ \A i, j \in 1..Len(evaluated') : evaluated'[i] = evaluated'[j] => i = j
              /\ known => calls = <<>> /\ log_row.revision.is_immutable
              /\ ~known => log_row.revision.is_immutable = (commit_id \in immutable)
              /\ \A s \in 0..(Len(stems') - 1) :
                    stems'[s + 1] # None /\ stems'[s + 1][1].source = log_row.location =>
                        stems'[s + 1][1].known_immutable = log_row.revision.is_immutable]_vars

\* A commit was reported immutable without a call of the predicate, after a
\* commit that was reported immutable by a call.
C30_Witness ==
    /\ \E k \in 1..Len(emitted) :
          /\ emitted[k].revision.is_immutable
          /\ \A j \in 1..Len(evaluated) : evaluated[j] # emitted[k].revision.id
    /\ \E k \in 1..Len(emitted) :
          /\ emitted[k].revision.is_immutable
          /\ \E j \in 1..Len(evaluated) : evaluated[j] = emitted[k].revision.id
    /\ \E k \in 1..Len(emitted) : ~emitted[k].revision.is_immutable

\* -------------------------------------------------- CopyHunk: properties
\* The copy was committed: the destination was rewritten with new content.
CopySucceeded == mpc = "done" /\ outcome = Some(Ok(Updated)) /\ Len(steps) = 3

\* The content of the destination before the copy, of the source, and of
\* the commit the destination was rewritten as.
ToContent == read_file_content(repo.commits[to_id].tree)

FromContent == read_file_content(repo.commits[from_id].tree)

NewToContent == read_file_content(repo.commits[steps[1].new].tree)

ToStart == saturating_sub(self_hunk[1].location.to_file.start, 1)

ToEnd == ToStart + self_hunk[1].location.to_file.len

FromStart == saturating_sub(self_hunk[1].location.from_file.start, 1)

FromEnd == FromStart + self_hunk[1].location.from_file.len

\* C24: when CopyHunk succeeds with a change, the lines of the destination's
\* new content are the destination's lines before the to-file range, the
\* source's lines in the from-file range, and the destination's lines after
\* the to-file range, in this order.
C24_SplicedContent ==
    CopySucceeded =>
        str_lines(NewToContent) =
            SubSeq(str_lines(ToContent), 1, ToStart)
                \o SubSeq(str_lines(FromContent), FromStart + 1, FromEnd)
                \o SubSeq(str_lines(ToContent), ToEnd + 1, Len(str_lines(ToContent)))

EndsWithNewline(bytes) == bytes # <<>> /\ bytes[Len(bytes)] = "\n"

\* C25: the destination a successful CopyHunk wrote, when it is not empty,
\* ends with a line feed if and only if the destination ended with one
\* before the copy.
C25_TrailingNewlineKept ==
    CopySucceeded /\ NewToContent # <<>> =>
        (EndsWithNewline(NewToContent) <=> EndsWithNewline(ToContent))

CopyReturned == mpc = "done"

ToImmutable == to_id \in immutable_ids

ToConflicted == ~is_resolved(repo.commits[to_id].tree)

ToOverflows == ToEnd > Len(str_lines(ToContent))

FromOverflows == FromEnd > Len(str_lines(FromContent))

\* The context and added lines of the hunk, without marker and line feed,
\* and the destination's lines in the to-file range.
ExpectedToLines ==
    LET Kept(diff_line) == diff_line # <<>> /\ diff_line[1] \in {" ", "+"}
        Captured(kept) == [k \in 1..Len(kept) |-> trim_end_matches_newline(Tail(kept[k]))]
    IN  Captured(SelectSeq(self_hunk[1].lines.lines, Kept))

ActualToLines == SubSeq(str_lines(ToContent), ToStart + 1, ToEnd)

TrimmedLines(ls) == [k \in 1..Len(ls) |-> trim_end(ls[k])]

DestinationMatches == TrimmedLines(ExpectedToLines) = TrimmedLines(ActualToLines)

ReturnedPreconditionError ==
    /\ outcome # None
    /\ outcome[1].tag = "Ok"
    /\ outcome[1].value.type = "PreconditionError"

ReturnedFailure == outcome # None /\ outcome[1].tag = "Err"

NothingWritten == steps = <<>> /\ RepoUntouched

\* C22 as stated: CopyHunk returns PreconditionError and writes nothing
\* whenever the destination is immutable or conflicted, or the range of the
\* destination or of the source ends behind the last line of its file.
C22_PreconditionErrors ==
    CopyReturned /\ (ToImmutable \/ ToConflicted \/ ToOverflows \/ FromOverflows) =>
        ReturnedPreconditionError /\ NothingWritten

\* C22: CopyHunk returns PreconditionError exactly when the destination is
\* immutable or conflicted, or the range of the destination ends behind its
\* last line, or the destination's lines match the hunk and the range of the
\* source ends behind its last line; it has then written nothing.
C22_PreconditionErrorsInOrder ==
    CopyReturned =>
        /\ ReturnedPreconditionError <=>
               \/ ToImmutable
               \/ ToConflicted
               \/ ToOverflows
               \/ DestinationMatches /\ FromOverflows
        /\ ReturnedPreconditionError => NothingWritten

C22_Witness ==
    /\ CopyReturned
    /\ ~ToImmutable /\ ~ToConflicted /\ ~ToOverflows
    /\ DestinationMatches /\ FromOverflows
    /\ ReturnedPreconditionError

\* The destination can be validated: it is mutable, its file is resolved
\* and holds the to-file range.
ToValidated == CopyReturned /\ ~ToImmutable /\ ~ToConflicted /\ ~ToOverflows

\* The lines of the to-file range that differ from the hunk's, trailing
\* whitespace aside, counted from the start of the range.
DifferingLines ==
    {k \in 1..Len(ExpectedToLines) :
        trim_end(ExpectedToLines[k]) # trim_end(ActualToLines[k])}

NamesLine(k) ==
    outcome[1].message =
        "Hunk validation failed at line " \o ToString(ToStart + k)
            \o ": expected '" \o Text(trim_end(ExpectedToLines[k]))
            \o "', found '" \o Text(trim_end(ActualToLines[k])) \o "'"

\* C23 as stated: a destination that differs from the hunk's context and
\* added lines in the to-file range by even one character makes CopyHunk
\* fail with a hard error, nothing written.
C23_AnyDifferenceFails ==
    ToValidated /\ ExpectedToLines # ActualToLines =>
        ReturnedFailure /\ NothingWritten

\* C23: a destination whose lines in the to-file range differ from the
\* hunk's context and added lines in number, or in content after trailing
\* whitespace is trimmed, makes CopyHunk fail with a hard error, nothing
\* written; with equal numbers the error names the first differing line of
\* the file and the two contents.
C23_TrimmedDifferenceFails ==
    ToValidated /\ ~DestinationMatches =>
        /\ ReturnedFailure
        /\ NothingWritten
        /\ Len(ExpectedToLines) = Len(ActualToLines) =>
               \A k \in DifferingLines :
                   (\A j \in DifferingLines : k <= j) => NamesLine(k)

C23_Witness ==
    /\ ToValidated
    /\ Len(ExpectedToLines) = Len(ActualToLines)
    /\ \E k \in DifferingLines : k > 1 /\ NamesLine(k)

\* The copy rewrote the commit, rebased it, or took it out of sight.
CopyTouched(c) ==
    \/ c = steps[1].old
    \/ c \in DOMAIN steps[2].map
    \/ c \notin repo.visible

\* C26 as stated: after a successful CopyHunk neither the source nor any of
\* its ancestors has been rewritten, abandoned or rebased, whatever the
\* ancestry relation between source and destination.
C26_SourceUntouched ==
    CopySucceeded =>
        \A c \in Ancestors(repo.commits, from_id) : ~CopyTouched(c)

\* C26: after a successful CopyHunk the source and its ancestors that have
\* been rewritten or rebased are exactly the destination and its
\* descendants among them; when the destination is neither the source nor
\* an ancestor of the source, none of them is touched.
C26_SourceUntouchedUnlessBelow ==
    CopySucceeded =>
        \A c \in Ancestors(repo.commits, from_id) :
            CopyTouched(c) <=> is_ancestor(repo.commits, to_id, c)

C26_Witness ==
    /\ CopySucceeded
    /\ from_id # to_id
    /\ is_ancestor(repo.commits, from_id, to_id)
    /\ \A c \in Ancestors(repo.commits, from_id) : ~CopyTouched(c)

MissingEdges(commit_id) ==
    {k \in 1..Len(history[commit_id]) :
        /\ history[commit_id][k].edge_type = "Missing"
        /\ history[commit_id][k].target # root_id}

ToMissingLines(log_row) ==
    {k \in 1..Len(log_row.lines) : log_row.lines[k].kind = "ToMissing"}

\* C31: once a commit has been laid out, no stem awaits the target of one
\* of its Missing edges (the root commit aside), and its row carries one
\* 'to missing' line for each of these edges.
C31_MissingEdgesTerminated ==
    /\ \A s \in 1..Len(stems) : stems[s] # None => stems[s][1].target \notin ExternalIds
    /\ \A k \in 1..Len(emitted) :
           Cardinality(ToMissingLines(emitted[k]))
               = Cardinality(MissingEdges(emitted[k].revision.id))

\* ------------------------------------------------ layout: order of steps
\* C32: when the stem that targets the visited commit holds the rightmost
\* slot and one of the commit's edges leaves a stem in that slot, the stem
\* was inserted into the vacated slot: the trim of the trailing empty slots
\* comes after the edges.
C32_TrimAfterEdges ==
    [][StemTargetsVisited =>
          LET log_row == emitted'[Len(emitted')]
              column  == log_row.location[1]
          IN  /\ column = Len(stems) - 1
              /\ Len(stems') > column
              /\ stems'[column + 1] # None
              /\ stems'[column + 1][1].source = log_row.location
              => stems'[column + 1][1].was_inserted]_vars

\* ------------------------------------------------------- UntrackBranch
\* The remotes that track the branch in the session's view.
TrackedIn(view) ==
    {remote \in 1..MaxRemotes : view[remote] = "tracked"}

\* C33: UntrackBranch on a local bookmark either returns Updated with every
\* remote that tracked the branch untracked, or returns something else and
\* has untracked no remote: the store holds what the session's view holds.
C33_UntrackAtomic ==
    upc = "done" /\ self_ref = "LocalBookmark" =>
        IF untracked = Some(Ok(Updated))
        THEN TrackedIn(store_remotes) = {} /\ view_remotes = store_remotes
        ELSE store_remotes = view_remotes

\* ------------------------------------------------ layout: one stem a commit
\* C34: no two stems of the stem vector target the same commit.
C34_OneStemPerTarget ==
    \A s, t \in 1..Len(stems) :
        stems[s] # None /\ stems[t] # None /\ stems[s][1].target = stems[t][1].target
            => s = t

\* An edge to a commit that a stem awaited was drawn as an intersection,
\* and the stem is still there.
C34_Witness ==
    /\ emitted # <<>>
    /\ HasLineOfKind(emitted[Len(emitted)], "ToIntersection")
    /\ \E s \in 1..Len(stems) : stems[s] # None

\* ------------------------------------------- layout: page-size independence
\* The rows of the commits k.. of the history laid out in one go, from the
\* stem vector v and the row r on.
RECURSIVE RowsInOneGo(_, _, _)
RowsInOneGo(v, k, r) ==
    IF k > Len(history) THEN <<>>
    ELSE LET Following(out) == <<out.log_row>> \o RowsInOneGo(out.stems, k + 1, out.row)
         IN  Following(LayoutCommit(v, k, history[k], r))

\* C35: whatever the page size, the rows emitted so far are the first rows
\* of the history laid out in one go, a returned page holds the last of
\* them, and once has_more is false they are all there.
C35_PageSizeIndependent ==
    /\ emitted = SubSeq(RowsInOneGo(<<>>, 1, 0), 1, Len(emitted))
    /\ Returned =>
          /\ Len(page[1].rows) <= Len(emitted)
          /\ page[1].rows = SubSeq(emitted, Len(emitted) - Len(page[1].rows) + 1,
                                   Len(emitted))
          /\ ~page[1].has_more => Len(emitted) = Len(history)

\* The rows came in more than one page, with a boundary row before the
\* last page.
C35_Witness ==
    /\ Returned
    /\ ~page[1].has_more
    /\ page[1].rows # <<>>
    /\ Len(page[1].rows) < Len(emitted)
    /\ \E k \in 1..(Len(emitted) - Len(page[1].rows)) : HasLineOfKind(emitted[k], "ToMissing")

\* ------------------------------------------------ layout: iterator errors
\* C36: the get_page call in which the iterator yields a revset evaluation
\* error returns, and what it returns is not a page.
C36_ErrorIsReturned ==
    [][iter' = iter + 1 /\ IsErr(history[iter + 1]) =>
          pc' = "idle" /\ "rows" \notin DOMAIN page'[1]]_vars

\* ------------------------------------------------ diff: separate hunks
\* C37: two consecutive change regions are in separate hunks exactly when
\* more than 2 * context matching lines lie between them; of two consecutive
\* hunks the later one starts at least one line behind the end of the
\* earlier one, in both buffers.
C37_FarRegionsSeparate ==
    Diffed =>
        /\ \A k \in Separators :
               Len(diff[k].right) > 2 * context <=>
                   ~\E n \in 1..Len(hunks[1]) :
                        {k - 1, k + 1} \subseteq OriginsOf(hunks[1][n])
        /\ \A n \in 1..(Len(hunks[1]) - 1) :
               /\ hunks[1][n + 1].left_line_range.start > hunks[1][n].left_line_range.end
               /\ hunks[1][n + 1].right_line_range.start > hunks[1][n].right_line_range.end

\* Two change regions with three matching lines between them, context 1:
\* two hunks.
C37_Witness ==
    /\ Diffed
    /\ context = 1
    /\ right_content = <<"b", "a", "a", "a", "b">>
    /\ \E k \in Separators : Len(diff[k].right) = 3
    /\ Len(hunks[1]) = 2

\* ------------------------------------------- apply_hunk_to_base: the frame
\* The context and added lines of the hunk, without marker and line feed,
\* and the number of its context and removed lines.
NewTexts(h) ==
    LET Kept(diff_line) == diff_line[1] \in {" ", "+"}
        Stripped(kept) == [k \in 1..Len(kept) |-> trim_end_matches_newline(Tail(kept[k]))]
    IN  Stripped(SelectSeq(h.lines.lines, Kept))

OldCount(h) ==
    LET Old(diff_line) == diff_line[1] \in {" ", "-"}
    IN  Len(SelectSeq(h.lines.lines, Old))

\* C38: the result of apply_hunk_to_base has the base's lines in front of
\* the hunk's range, the hunk's context and added lines, and the base's
\* lines behind the range; for a hunk of context lines only it is the base,
\* byte for byte.
C38_OnlyRangeChanges ==
    Applied /\ applied[1].tag = "Ok" =>
        LET h == self_hunk[1]
            base_lines == str_lines(base_content)
            hunk_start == saturating_sub(h.location.from_file.start, 1)
        IN  /\ str_lines(applied[1].value) =
                   SubSeq(base_lines, 1, hunk_start)
                       \o NewTexts(h)
                       \o SubSeq(base_lines, hunk_start + OldCount(h) + 1, Len(base_lines))
            /\ (\A k \in 1..Len(h.lines.lines) : h.lines.lines[k][1] = " ")
                   => applied[1].value = base_content

\* ------------------------------------------------ CopyHunk: equal ranges
\* The source's lines in the from-file range are the destination's lines in
\* the to-file range.
EqualRanges ==
    SubSeq(str_lines(FromContent), FromStart + 1, FromEnd) = ActualToLines

\* C39: a CopyHunk that passes validation and whose source range holds the
\* same lines as the destination range returns Unchanged and writes
\* nothing, whatever the destination file's content.
C39_EqualRangesUnchanged ==
    ToValidated /\ ~FromOverflows /\ DestinationMatches /\ EqualRanges =>
        outcome = Some(Ok(Unchanged)) /\ NothingWritten

\* ----------------------------------- MoveHunk: source above the destination
\* The trees the move computed and wrote are free of conflicts: the
\* remainder, for every commit of the first rebase the merged trees of its
\* old and of its new parents and its rebased tree, and the tree written
\* for the destination.
MergesResolved ==
    /\ is_resolved(locals[1].remainder_tree)
    /\ \A k \in Entries({"rebase_descendants_with_options"}) :
          \A old_id \in DOMAIN steps[k].map :
              LET rebased == CommitsNow[steps[k].map[old_id]]
              IN  /\ is_resolved(merge_commit_trees(CommitsNow, CommitsNow[old_id].parents))
                  /\ is_resolved(merge_commit_trees(CommitsNow, rebased.parents))
                  /\ is_resolved(rebased.tree)
    /\ \A k \in Entries({"rewrite_destination"}) :
          /\ is_resolved(CommitsNow[steps[k].old].tree)
          /\ is_resolved(steps[k].tree)

\* C40 as stated: when the source is an ancestor of the destination and not the
\* destination, and no merge leaves a conflict, the commit MoveHunk writes
\* for the destination has the tree the destination had before the move,
\* and the map of the first rebase holds the destination.
C40_DestinationTreeKept ==
    SourceIsStrictAncestor /\ MergesResolved =>
        /\ Len(steps) >= 2 => to_id \in DOMAIN steps[2].map
        /\ \A k \in Entries({"rewrite_destination"}) :
              /\ steps[k].tree = repo.commits[to_id].tree
              /\ CommitsNow[steps[k].new].tree = repo.commits[to_id].tree
        /\ Finished => outcome[1] = Ok(Updated)

\* The destination's tree holds the hunk: taking the hunk out of it leaves no
\* conflict, and merging the hunk in again gives the tree itself.
DestinationHoldsHunk ==
    LET l == locals[1]
        without == MergeTrees(repo.commits[to_id].tree, l.sibling_tree, l.base_tree)
    IN  /\ is_resolved(without)
        /\ MergeTrees(without, l.base_tree, l.sibling_tree) = repo.commits[to_id].tree

\* C40 amended: when the source is an ancestor of the destination and not
\* the destination, no merge leaves a conflict and the destination's tree
\* holds the hunk, the commit MoveHunk writes for the destination has the
\* tree the destination had before the move, and the map of the first
\* rebase holds the destination.
C40_DestinationTreeKept_Amended ==
    SourceIsStrictAncestor /\ MergesResolved /\ DestinationHoldsHunk =>
        /\ Len(steps) >= 2 => to_id \in DOMAIN steps[2].map
        /\ \A k \in Entries({"rewrite_destination"}) :
              /\ steps[k].tree = repo.commits[to_id].tree
              /\ CommitsNow[steps[k].new].tree = repo.commits[to_id].tree
        /\ Finished => outcome[1] = Ok(Updated)

\* A committed move from an ancestor whose first rebase took the hunk out of
\* the destination, which holds it again afterwards.
C40_Witness ==
    /\ MoveCommitted
    /\ SourceIsStrictAncestor
    /\ MergesResolved
    /\ DestinationHoldsHunk
    /\ \E k \in Entries({"rewrite_destination"}) :
          /\ steps[k].old = steps[2].map[to_id]
          /\ repo.commits[steps[k].old].tree # repo.commits[to_id].tree
          /\ repo.commits[steps[k].new].tree = repo.commits[to_id].tree

====
